---- MODULE Spec2Model ----
(***************************************************************************)
(* Model of the CPU rasterizer frame of the vessels graphics core:         *)
(*   src/src/targets/native/graphics/pure2d.rs  (CairoFrame, CairoObject,  *)
(*                                               CairoImage)               *)
(*   src/src/graphics/path.rs                   (segments, builders)       *)
(*                                                                         *)
(* A frame is an Arc<RwLock<CairoFrameState>>; every object is an          *)
(* Arc<RwLock<CairoObjectState>>; an image is an Arc<Mutex<CairoSurface>>. *)
(* Two threads use one frame: "render" runs draw()/to_image()/get_size()   *)
(* and "app" runs add()/resize()/set_viewport()/set_pixel_ratio() and the  *)
(* Object methods on the handles it got from add().                        *)
(*                                                                         *)
(* Four specifications share the definitions: Spec is the frame with its   *)
(* two threads, SpecPass the draw() passes over a populated frame,         *)
(* SpecPath the builders of path.rs and the drawing of the Path they       *)
(* produce, SpecBlur the methods of CairoImage (blur, get_data_ptr,        *)
(* as_texture, from_texture).                                              *)
(*                                                                         *)
(* The cairo context is modelled by what its calls do to the current       *)
(* transformation matrix, the save stack, the current path and the target  *)
(* surface.  f64 values are modelled by integers; the input sets are       *)
(* chosen so that every division the code performs is exact, and a         *)
(* division by zero yields the value NonFinite.                            *)
(***************************************************************************)
EXTENDS Integers, Sequences, FiniteSets, TLC

\* ------------------------------------------------------------------ bounds
MaxAppCalls == 3
MaxDraws == 2
MaxImages == 1

\* ------------------------------------------------------------- f64 values
NonFinite == 0 - 99999

IsFinite(a) == a # NonFinite

FDiv(a, b) == IF a = NonFinite \/ b = NonFinite \/ b = 0 THEN NonFinite ELSE a \div b

FMul(a, b) == IF a = NonFinite \/ b = NonFinite THEN NonFinite ELSE a * b

FAdd(a, b) == IF a = NonFinite \/ b = NonFinite THEN NonFinite ELSE a + b

FNeg(a) == IF a = NonFinite THEN NonFinite ELSE 0 - a

\* ------------------------------------------------------- cairo::Matrix
\* A matrix is <<xx, yx, xy, yy, x0, y0>>.
MatIdentity == <<1, 0, 0, 1, 0, 0>>

MatFinite(m) == \A i \in 1..6 : IsFinite(m[i])

\* cairo_matrix_multiply(a, b): a is applied first, then b.
MatMul(a, b) ==
    << a[1] * b[1] + a[2] * b[3],
       a[1] * b[2] + a[2] * b[4],
       a[3] * b[1] + a[4] * b[3],
       a[3] * b[2] + a[4] * b[4],
       a[5] * b[1] + a[6] * b[3] + b[5],
       a[5] * b[2] + a[6] * b[4] + b[6] >>

MatInvertible(m) == MatFinite(m) /\ (m[1] * m[4] - m[2] * m[3]) # 0

\* User-space point to device space under the matrix m.
MatApply(m, p) == << p[1] * m[1] + p[2] * m[3] + m[5], p[1] * m[2] + p[2] * m[4] + m[6] >>

\* ------------------------------------------------------- backend calls
\* One call on the cairo context: the function of pure2d.rs that issued it,
\* the cairo call, the object cell being painted (0: none), the numeric
\* arguments and, once executed, the transformation matrix in effect after it.
Call(fn, op, obj, a) == [fn |-> fn, op |-> op, obj |-> obj, a |-> a, ctm |-> <<>>]

\* cairo::Context::new(&surface): identity matrix, no saved state, no path.
NewContext(surface) ==
    [ target |-> surface, matrix |-> MatIdentity, stack |-> <<>>,
      path |-> <<>>, source |-> <<0, 0, 0, 255>>, status |-> "ok" ]

\* A drawing operation reaches the pixels when the surface has pixels.
Paintable(surf) == surf.w > 0 /\ surf.h > 0

Paint(kind, cx) == [kind |-> kind, path |-> cx.path, source |-> cx.source]

\* The effect of one call on <<context, pixels of the target surface>>.
\* A context in an error status ignores every call (cairo's sticky status).
\* The white rectangle that draw() fills covers what was painted before.
ExecCall(st, c) ==
    LET cx == st.cx
        px == st.px
        pt(i) == MatApply(cx.matrix, << c.a[i], c.a[i + 1] >>)
        mul(m) == IF MatInvertible(m)
                    THEN [st EXCEPT !.cx.matrix = MatMul(m, cx.matrix)]
                    ELSE [st EXCEPT !.cx.status = "err"]
    IN  IF cx.status # "ok" THEN st
        ELSE CASE c.op = "set_matrix" ->
                    IF MatInvertible(c.a) THEN [st EXCEPT !.cx.matrix = c.a]
                    ELSE [st EXCEPT !.cx.status = "err"]
               [] c.op = "transform" -> mul(c.a)
               [] c.op = "translate" -> mul(<<1, 0, 0, 1, c.a[1], c.a[2]>>)
               [] c.op = "scale" -> mul(<<c.a[1], 0, 0, c.a[2], 0, 0>>)
               [] c.op = "save" ->
                    [st EXCEPT !.cx.stack =
                        Append(@, [matrix |-> cx.matrix, source |-> cx.source])]
               [] c.op = "restore" ->
                    IF cx.stack = <<>> THEN [st EXCEPT !.cx.status = "err"]
                    ELSE [st EXCEPT
                            !.cx.matrix = cx.stack[Len(cx.stack)].matrix,
                            !.cx.source = cx.stack[Len(cx.stack)].source,
                            !.cx.stack = SubSeq(@, 1, Len(@) - 1)]
               [] c.op \in {"set_source_rgb", "set_source_rgba", "set_source",
                            "set_source_surface"} ->
                    [st EXCEPT !.cx.source = c.a]
               [] c.op = "rectangle" ->
                    [st EXCEPT !.cx.path = @ \o
                        << <<"M">> \o pt(1),
                           <<"L">> \o MatApply(cx.matrix, <<c.a[1] + c.a[3], c.a[2]>>),
                           <<"L">> \o MatApply(cx.matrix, <<c.a[1] + c.a[3], c.a[2] + c.a[4]>>),
                           <<"L">> \o MatApply(cx.matrix, <<c.a[1], c.a[2] + c.a[4]>>),
                           <<"Z">> >>]
               [] c.op = "move_to" ->
                    [st EXCEPT !.cx.path = Append(@, <<"M">> \o pt(1))]
               [] c.op = "line_to" ->
                    [st EXCEPT !.cx.path =
                        Append(@, (IF cx.path = <<>> THEN <<"M">> ELSE <<"L">>) \o pt(1))]
               [] c.op = "curve_to" ->
                    [st EXCEPT !.cx.path =
                        (IF cx.path = <<>> THEN Append(@, <<"M">> \o pt(1)) ELSE @)
                        \o << <<"C">> \o pt(1) \o pt(3) \o pt(5) >>]
               [] c.op = "close_path" ->
                    [st EXCEPT !.cx.path = IF @ = <<>> THEN @ ELSE Append(@, <<"Z">>)]
               [] c.op = "fill" ->
                    [st EXCEPT !.cx.path = <<>>,
                               !.px = IF c.fn = "draw" THEN <<Paint("fill", cx)>>
                                      ELSE Append(@, Paint("fill", cx))]
               [] c.op = "stroke" ->
                    [st EXCEPT !.cx.path = <<>>, !.px = Append(@, Paint("stroke", cx))]
               [] c.op = "stroke_preserve" ->
                    [st EXCEPT !.px = Append(@, Paint("stroke", cx))]
               [] OTHER -> st

\* A call as the log keeps it: with the matrix in effect after it.
Logged(c, cx) == [c EXCEPT !.ctm = cx.matrix]

\* The calls cs in order.  Once the context is in an error status the
\* remaining calls change nothing and are only logged.
RECURSIVE ExecCalls(_, _)
ExecCalls(st, cs) ==
    IF cs = <<>> THEN st
    ELSE LET s1 == ExecCall(st, Head(cs))
             s2 == [s1 EXCEPT !.log = Append(@, Logged(Head(cs), s1.cx))]
         IN  IF s2.cx.status = "ok" THEN ExecCalls(s2, Tail(cs))
             ELSE [s2 EXCEPT !.log =
                      @ \o [i \in 1..(Len(cs) - 1) |-> Logged(cs[i + 1], s2.cx)]]

\* ------------------------------------------------------------ path model
\* Segment (path.rs Segment2D): LineTo(p), MoveTo(p), QuadraticTo(p, h),
\* CubicTo(p, h1, h2).  Unused handles are <<0, 0>>.
LineTo(p) == [seg |-> "LineTo", p |-> p, h1 |-> <<0, 0>>, h2 |-> <<0, 0>>]

MoveTo(p) == [seg |-> "MoveTo", p |-> p, h1 |-> <<0, 0>>, h2 |-> <<0, 0>>]

QuadraticTo(p, h) == [seg |-> "QuadraticTo", p |-> p, h1 |-> h, h2 |-> <<0, 0>>]

CubicTo(p, h1, h2) == [seg |-> "CubicTo", p |-> p, h1 |-> h1, h2 |-> h2]

\* Texture: Solid(color) | LinearGradient | RadialGradient | Image.  geom holds
\* the gradient's start/end (and radii), stops its <<offset, r, g, b, a>>,
\* image the concrete type behind the Box<dyn ImageRepresentation>.
Solid(color) ==
    [kind |-> "Solid", color |-> color, geom |-> <<>>, stops |-> <<>>, image |-> "none"]

LinearGradient(geom, stops) ==
    [kind |-> "LinearGradient", color |-> <<>>, geom |-> geom, stops |-> stops,
     image |-> "none"]

\* Texture::Image(image): type is "CairoImage" for an image of this backend.
ImageTexture(type) ==
    [kind |-> "Image", color |-> <<>>, geom |-> <<>>, stops |-> <<>>, image |-> type]

NoTexture ==
    [kind |-> "None", color |-> <<>>, geom |-> <<>>, stops |-> <<>>, image |-> "none"]

\* Option<Stroke>, Option<Fill>: some = FALSE is None.
NoStroke == [some |-> FALSE, content |-> NoTexture, width |-> 0, cap |-> "Butt", join |-> "Miter"]

StrokeOf(content, width, cap, join) ==
    [some |-> TRUE, content |-> content, width |-> width, cap |-> cap, join |-> join]

NoFill == [some |-> FALSE, content |-> NoTexture]

FillOf(content) == [some |-> TRUE, content |-> content]

Shadow(color, offset, spread, blur) ==
    [color |-> color, offset |-> offset, spread |-> spread, blur |-> blur]

\* Rasterizable::Path(path) and Rasterizable::Text(text).  bsize is the size
\* of the path's bounding box (entity.bounds().size).
PathEntity(segments, stroke, fill, shadows, closed, bsize) ==
    [kind |-> "Path", segments |-> segments, stroke |-> stroke, fill |-> fill,
     shadows |-> shadows, closed |-> closed, bsize |-> bsize, color |-> <<>>]

TextEntity(color) ==
    [kind |-> "Text", segments |-> <<>>, stroke |-> NoStroke, fill |-> NoFill,
     shadows |-> <<>>, closed |-> FALSE, bsize |-> <<0, 0>>, color |-> color]

Black == <<0, 0, 0, 255>>

Red == <<255, 0, 0, 255>>

Blue == <<0, 0, 255, 255>>

\* A closed 2x2 rectangle, stroked and filled, with one shadow.
PathA ==
    PathEntity(<<LineTo(<<2, 0>>), LineTo(<<2, 2>>), LineTo(<<0, 2>>)>>,
               StrokeOf(Solid(Black), 1, "Butt", "Miter"), FillOf(Solid(Red)),
               <<Shadow(Black, <<1, 1>>, 1, 3)>>, TRUE, <<2, 2>>)

\* An open curve with a gradient stroke and no fill.
PathB ==
    PathEntity(<<MoveTo(<<1, 0>>), QuadraticTo(<<2, 2>>, <<2, 0>>)>>,
               StrokeOf(LinearGradient(<<0, 0, 2, 0>>, << <<0>> \o Red, <<1>> \o Blue >>),
                        2, "Round", "Bevel"),
               NoFill, <<>>, FALSE, <<1, 2>>)

\* A filled triangle without stroke.
PathC ==
    PathEntity(<<LineTo(<<1, 0>>), CubicTo(<<1, 1>>, <<1, 0>>, <<1, 1>>)>>,
               NoStroke, FillOf(Solid(Blue)), <<>>, TRUE, <<1, 1>>)

TextA == TextEntity(Blue)

\* Transform values as the array to_matrix() yields: [xx, xy, yx, yy, x0, y0].
TIdentity == <<1, 0, 0, 1, 0, 0>>

TTranslate == <<1, 0, 0, 1, 1, 0>>

TRotate == <<0, 0 - 1, 1, 0, 0, 0>>

TScale == <<2, 0, 0, 2, 0, 0>>

\* Content { content, transform, depth }: the argument of Frame::add.
ContentOf(content, transform, depth) ==
    [content |-> content, transform |-> transform, depth |-> depth]

AddInputs ==
    { ContentOf(PathA, TScale, 2), ContentOf(PathB, TTranslate, 1),
      ContentOf(TextA, TRotate, 0) }

Vec(x, y) == [x |-> x, y |-> y]

Rect(position, sz) == [position |-> position, size |-> sz]

ResizeInputs == { Vec(4, 2), Vec(2, 3) }

ViewportInputs == { Rect(Vec(1, 0), Vec(2, 1)) }

RatioInputs == { 2 }

TransformInputs == { TRotate }

DepthInputs == { 3 }

UpdateInputs == { PathC }

\* ------------------------------------------- the calls the draw code issues
RECURSIVE Flatten(_)
Flatten(ss) == IF ss = <<>> THEN <<>> ELSE Head(ss) \o Flatten(Tail(ss))

\* The match on a segment in draw_path / draw_shadows.
SegmentCall(fn, obj, s) ==
    CASE s.seg = "LineTo" -> Call(fn, "line_to", obj, s.p)
      [] s.seg = "MoveTo" -> Call(fn, "move_to", obj, s.p)
      [] s.seg = "CubicTo" -> Call(fn, "curve_to", obj, s.h1 \o s.h2 \o s.p)
      [] s.seg = "QuadraticTo" -> Call(fn, "curve_to", obj, s.h1 \o s.h1 \o s.p)

SegmentCalls(fn, obj, segs) == [i \in 1..Len(segs) |-> SegmentCall(fn, obj, segs[i])]

\* context.restore(); context.save(); context.transform(Matrix { xx: matrix[0],
\* yx: matrix[2], xy: matrix[1], yy: matrix[3], x0: matrix[4], y0: matrix[5] })
ResetTransform(fn, obj, matrix) ==
    << Call(fn, "restore", obj, <<>>),
       Call(fn, "save", obj, <<>>),
       Call(fn, "transform", obj,
            <<matrix[1], matrix[3], matrix[2], matrix[4], matrix[5], matrix[6]>>) >>

\* The match on a Texture that selects the context's source.
SetSource(fn, obj, tex) ==
    CASE tex.kind = "Solid" -> Call(fn, "set_source_rgba", obj, tex.color)
      [] tex.kind = "Image" -> Call(fn, "set_source_surface", obj, <<0, 0>>)
      [] OTHER -> Call(fn, "set_source", obj, tex.geom \o Flatten(tex.stops))

\* A shadow body that hands the blur to the backend before it fills.
ShadowCalls_Blurred(matrix, entity, obj, shadow) ==
    LET spread == shadow.spread * 2
        sz == entity.bsize
        scale == << FDiv(sz[1] + spread, sz[1]), FDiv(sz[2] + spread, sz[2]) >>
        new_size == << sz[1] + spread, sz[2] + spread >>
        scale_offset == << FDiv(sz[1] - new_size[1], 2), FDiv(sz[2] - new_size[2], 2) >>
    IN  ResetTransform("draw_shadows", obj, matrix)
        \o << Call("draw_shadows", "translate", obj,
                   << scale_offset[1] + shadow.offset[1],
                      scale_offset[2] + shadow.offset[2] >>),
              Call("draw_shadows", "scale", obj, scale) >>
        \o SegmentCalls("draw_shadows", obj, entity.segments)
        \o (IF entity.closed THEN <<Call("draw_shadows", "close_path", obj, <<>>)>> ELSE <<>>)
        \o << Call("draw_shadows", "set_shadow_blur", obj, <<shadow.blur>>),
              Call("draw_shadows", "set_source_rgba", obj, shadow.color),
              Call("draw_shadows", "fill", obj, <<>>) >>

\* The body of the loop over entity.shadows in draw_shadows.
ShadowCalls(matrix, entity, obj, shadow) ==
    LET spread == shadow.spread * 2
        sz == entity.bsize
        scale == << FDiv(sz[1] + spread, sz[1]), FDiv(sz[2] + spread, sz[2]) >>
        new_size == << sz[1] + spread, sz[2] + spread >>
        scale_offset == << FDiv(sz[1] - new_size[1], 2), FDiv(sz[2] - new_size[2], 2) >>
    IN  ResetTransform("draw_shadows", obj, matrix)
        \o << Call("draw_shadows", "translate", obj,
                   << scale_offset[1] + shadow.offset[1],
                      scale_offset[2] + shadow.offset[2] >>),
              Call("draw_shadows", "scale", obj, scale) >>
        \o SegmentCalls("draw_shadows", obj, entity.segments)
        \o (IF entity.closed THEN <<Call("draw_shadows", "close_path", obj, <<>>)>> ELSE <<>>)
        \o << Call("draw_shadows", "set_source_rgba", obj, shadow.color),
              Call("draw_shadows", "fill", obj, <<>>) >>

RECURSIVE AllShadowCalls(_, _, _, _)
AllShadowCalls(matrix, entity, obj, shadows) ==
    IF shadows = <<>> THEN <<>>
    ELSE ShadowCalls(matrix, entity, obj, Head(shadows))
         \o AllShadowCalls(matrix, entity, obj, Tail(shadows))

\* draw_shadows(matrix, entity)
DrawShadowsCalls(matrix, entity, obj) ==
    AllShadowCalls(matrix, entity, obj, entity.shadows)
    \o ResetTransform("draw_shadows", obj, matrix)

\* draw_path: context.move_to(0., 0.), the segments, close_path if closed.
PathConstruction(entity, obj) ==
    << Call("draw_path", "move_to", obj, <<0, 0>>) >>
    \o SegmentCalls("draw_path", obj, entity.segments)
    \o (IF entity.closed THEN <<Call("draw_path", "close_path", obj, <<>>)>> ELSE <<>>)

\* A stroke pass that always consumes the path it strokes.
StrokePass_Consuming(entity, pixel_ratio, obj) ==
    IF ~entity.stroke.some THEN <<>>
    ELSE << SetSource("draw_path", obj, entity.stroke.content),
            Call("draw_path", "set_line_width", obj, <<entity.stroke.width>>),
            Call("draw_path", "stroke", obj, <<>>) >>

\* draw_path: match &entity.stroke
StrokePass(entity, pixel_ratio, obj) ==
    IF ~entity.stroke.some THEN <<>>
    ELSE << Call("draw_path", "set_line_cap", obj,
                 <<IF entity.stroke.cap = "Butt" THEN 0 ELSE 1>>),
            Call("draw_path", "set_line_join", obj,
                 <<CASE entity.stroke.join = "Miter" -> 0
                     [] entity.stroke.join = "Round" -> 1
                     [] OTHER -> 2>>),
            SetSource("draw_path", obj, entity.stroke.content),
            Call("draw_path", "set_line_width", obj, <<entity.stroke.width>>),
            IF entity.fill.some
            THEN Call("draw_path", "stroke_preserve", obj, <<>>)
            ELSE Call("draw_path", "stroke", obj, <<>>) >>
         \o (IF entity.stroke.content.kind = "Image"
             THEN <<Call("draw_path", "scale", obj, <<pixel_ratio, pixel_ratio>>)>>
             ELSE <<>>)

\* draw_path: match &entity.fill
FillPass(entity, pixel_ratio, obj) ==
    IF ~entity.fill.some THEN <<>>
    ELSE << SetSource("draw_path", obj, entity.fill.content),
            Call("draw_path", "fill", obj, <<>>) >>
         \o (IF entity.fill.content.kind = "Image"
             THEN <<Call("draw_path", "scale", obj, <<pixel_ratio, pixel_ratio>>)>>
             ELSE <<>>)

\* A downcast that is taken to succeed for every image.
DowncastFails_Never(tex) == FALSE

\* image.as_any().downcast::<CairoImage>().unwrap() panics for an image that
\* is not a CairoImage.
DowncastFails(tex) == tex.kind = "Image" /\ tex.image # "CairoImage"

\* draw_path panics in the match on the stroke's or the fill's texture.
PathPanics(entity) ==
    \/ entity.stroke.some /\ DowncastFails(entity.stroke.content)
    \/ entity.fill.some /\ DowncastFails(entity.fill.content)

\* A draw_path that fills before it strokes.
DrawPathCalls_FillFirst(entity, pixel_ratio, obj) ==
    PathConstruction(entity, obj)
    \o FillPass(entity, pixel_ratio, obj)
    \o StrokePass(entity, pixel_ratio, obj)

\* draw_path after the call of draw_shadows: construction, stroke, fill.
DrawPathCalls(entity, pixel_ratio, obj) ==
    PathConstruction(entity, obj)
    \o StrokePass(entity, pixel_ratio, obj)
    \o FillPass(entity, pixel_ratio, obj)

\* The calls draw_path has issued when it panics: with the stroke's image, the
\* construction, set_line_cap and set_line_join; with the fill's image, the
\* construction and the whole stroke pass.
DrawPathCallsToPanic(entity, pixel_ratio, obj) ==
    PathConstruction(entity, obj)
    \o (IF entity.stroke.some /\ DowncastFails(entity.stroke.content)
        THEN SubSeq(StrokePass(entity, pixel_ratio, obj), 1, 2)
        ELSE StrokePass(entity, pixel_ratio, obj))

\* layout_text: the calls on the context while the layout is set up.
LayoutTextCalls(entity, obj) ==
    << Call("layout_text", "create_layout", obj, <<>>),
       Call("layout_text", "set_font_options", obj, <<>>),
       Call("layout_text", "set_antialias", obj, <<>>),
       Call("layout_text", "set_source_rgba", obj, entity.color),
       Call("layout_text", "update_layout", obj, <<>>) >>

\* A background block that multiplies the viewport matrix into the current one.
BackgroundCalls_Relative(sz, vp, pixel_ratio) ==
    << Call("draw", "set_source_rgb", 0, <<1, 1, 1>>),
       Call("draw", "transform", 0,
            << FMul(FDiv(sz.x, vp.size.x), pixel_ratio),
               0,
               0,
               FNeg(FMul(FDiv(sz.y, vp.size.y), pixel_ratio)),
               FMul(FNeg(vp.position.x), pixel_ratio),
               FAdd(FMul(FNeg(vp.position.y), pixel_ratio), vp.size.y) >>),
       Call("draw", "rectangle", 0,
            <<vp.position.x, vp.position.y, vp.size.x, vp.size.y>>),
       Call("draw", "fill", 0, <<>>),
       Call("draw", "save", 0, <<>>) >>

\* draw(): the block that paints the background and saves the base state.
BackgroundCalls(sz, vp, pixel_ratio) ==
    << Call("draw", "set_source_rgb", 0, <<1, 1, 1>>),
       Call("draw", "set_matrix", 0,
            << FMul(FDiv(sz.x, vp.size.x), pixel_ratio),
               0,
               0,
               FNeg(FMul(FDiv(sz.y, vp.size.y), pixel_ratio)),
               FMul(FNeg(vp.position.x), pixel_ratio),
               FAdd(FMul(FNeg(vp.position.y), pixel_ratio), vp.size.y) >>),
       Call("draw", "rectangle", 0,
            <<vp.position.x, vp.position.y, vp.size.x, vp.size.y>>),
       Call("draw", "fill", 0, <<>>),
       Call("draw", "save", 0, <<>>) >>

\* ------------------------------------------------------------------ state
Threads == {"render", "app"}

VARIABLES
    contents,      \* CairoFrameState.contents: the cells of the objects, in list order
    viewport,      \* CairoFrameState.viewport
    size,          \* CairoFrameState.size
    pixel_ratio,   \* CairoFrameState.pixel_ratio
    context,       \* CairoFrameState.context: the cairo context and its target surface
    frameReaders,  \* read guards each thread holds on the frame's RwLock
    frameWaiters,  \* threads blocked in state.write()
    rwPolicy,      \* whether the platform's RwLock queues new readers behind a waiting writer
    objects,       \* the CairoObjectState cells, by cell number
    objReaders,    \* read guards held on each cell's RwLock
    handles,       \* the Box<dyn Object> handles the callers hold: handle -> cell
    lockOrder,     \* per cell: the orientation last assigned to it and the transforms
                   \* apply_transform() was called with since, in the order in
                   \* which the calls took the cell's write lock
    surfaces,      \* the image surfaces ever created: width, height, pixels
    images,        \* the CairoImage values to_image() returned
    imgOwner,      \* the thread holding each image's Mutex, or "none"
    pc,            \* where each thread is
    pend,          \* the call each thread is executing
    idx,           \* draw(): position of the iteration over contents
    mat,           \* draw(): object.orientation.to_matrix() of the object being painted
    calls,         \* the backend calls the running draw() pass has issued
    passList,      \* contents when the running pass took its read guard
    dirty,         \* a mutation of the frame or of an object completed since the
                   \* running (or last) pass took its read guard
    prev,          \* the calls of the last completed pass, kept while nothing has
                   \* been mutated since that pass began
    nDraws,        \* draw()/to_image() calls started
    nAppCalls,     \* calls the app thread has started
    frames,        \* per handle to the frame (the Box of new(), the clones): the
                   \* CairoFrameState it refers to; 1 is the state of new()
    builder,       \* the GeometryBuilder / Builder / Path value under construction
    raster,        \* the backend calls that drew the finalized Path, and their effect
    buffer,        \* the ARGB32 data of a CairoImage's surface: width, height, bytes
    blurRun,       \* CairoImage::blur(): box widths, channel and pass reached
    lastPass,      \* the last box_blur call: its arguments and what it produced
    texture        \* what as_texture() returned for the image, and the image
                   \* from_texture() made of it

vars ==
    << contents, viewport, size, pixel_ratio, context, frameReaders, frameWaiters,
       rwPolicy, objects, objReaders, handles, lockOrder, surfaces, images, imgOwner,
       pc, pend, idx, mat, calls, passList, dirty, prev, nDraws, nAppCalls, frames,
       builder, raster, buffer, blurRun, lastPass, texture >>

\* The values built and processed away from any frame.
blurVars == << buffer, blurRun, lastPass, texture >>

offFrame == << builder, raster, blurVars >>

\* The frame, its objects and its threads.
frameAll ==
    << contents, viewport, size, pixel_ratio, context, frameReaders, frameWaiters,
       rwPolicy, objects, objReaders, handles, lockOrder, surfaces, images, imgOwner,
       pc, pend, idx, mat, calls, passList, dirty, prev, nDraws, nAppCalls, frames >>

frameVars == << contents, viewport, size, pixel_ratio >>

objVars == << objects, handles, lockOrder >>

lockVars == << frameReaders, frameWaiters, rwPolicy, objReaders, imgOwner >>

frameLock == << frameReaders, frameWaiters, rwPolicy >>

passVars == << idx, mat, calls, passList >>

NoPass == [valid |-> FALSE, calls |-> <<>>]

countVars == << nDraws, nAppCalls >>

histVars == << dirty, prev >>

ctxVars == << context, surfaces >>

NoCall == [name |-> "none", arg |-> <<>>]

\* size.x as i32
AsI32(v) ==
    IF v = NonFinite THEN 0
    ELSE IF v > 2147483647 THEN 2147483647
    ELSE IF v < 0 - 2147483647 - 1 THEN 0 - 2147483647 - 1
    ELSE v

\* The surface cairo hands out for a context in an error status: it is no
\* surface of the frame, and its width and height read as 0.
NilRef == 0

NilSurface == [w |-> 0, h |-> 0, pixels |-> <<>>]

\* ImageSurface::create(Format::ARgb32, w, h)
NewSurface(sz) == [w |-> AsI32(sz.x), h |-> AsI32(sz.y), pixels |-> <<>>]

\* Option<Shadow2D> of a Builder: some = FALSE is None.
NoShadow == [some |-> FALSE, color |-> <<>>, offset |-> <<0, 0>>, blur |-> 0]

\* No GeometryBuilder, Builder or Path exists yet.  stage is the type of the
\* value; made lists the segments the GeometryBuilder calls asked for, by is
\* the constructor call that produced the value.
NoBuilder ==
    [ stage |-> "none", segments |-> <<>>, closed |-> FALSE, fill |-> NoFill,
      stroke |-> NoStroke, shadow |-> NoShadow, made |-> <<>>, by |-> <<"none">> ]

\* No Path has been drawn.
NoRaster == [drawn |-> FALSE, issued |-> <<>>, px |-> <<>>, status |-> "ok"]

\* No image surface is being blurred.
NoBuffer ==
    [ width |-> 0, height |-> 0, data |-> <<>>, status |-> "Success", null |-> TRUE,
      flushed |-> FALSE ]

NoBlur ==
    [ at |-> "none", call |-> "none", sigma |-> 0, boxes |-> <<>>, channel |-> 0,
      box |-> 0, before |-> <<>> ]

\* as_texture() has not been called.
NoExchange == [stage |-> "none", tex |-> <<>>, image |-> <<>>]

NoBoxBlur ==
    [ done |-> FALSE, radius |-> 0, channel |-> 0, source |-> <<>>,
      h |-> <<>>, hOk |-> TRUE, t |-> <<>>, tOk |-> TRUE ]

\* CairoFrame::new()
FrameNew ==
    /\ contents = <<>>
    /\ viewport = Rect(Vec(0, 0), Vec(0, 0))
    /\ size = Vec(0, 0)
    /\ pixel_ratio = 1
    /\ surfaces = << NewSurface(Vec(0, 0)) >>
    /\ context = NewContext(1)
    /\ frameReaders = [t \in Threads |-> 0]
    /\ frameWaiters = {}
    /\ rwPolicy \in {"readers_first", "writers_first"}
    /\ objects = <<>>
    /\ objReaders = <<>>
    /\ handles = <<>>
    /\ lockOrder = <<>>
    /\ images = <<>>
    /\ imgOwner = <<>>
    /\ pc = [t \in Threads |-> "idle"]
    /\ pend = [t \in Threads |-> NoCall]
    /\ idx = 0
    /\ mat = TIdentity
    /\ calls = <<>>
    /\ passList = <<>>
    /\ dirty = FALSE
    /\ prev = NoPass
    /\ nDraws = 0
    /\ nAppCalls = 0
    /\ frames = <<1>>

\* A frame, with no path under construction and no image being blurred.
Init ==
    /\ FrameNew
    /\ builder = NoBuilder
    /\ raster = NoRaster
    /\ buffer = NoBuffer
    /\ blurRun = NoBlur
    /\ lastPass = NoBoxBlur
    /\ texture = NoExchange

\* The surface behind a reference.
SurfaceOf(ref) == IF ref = NilRef THEN NilSurface ELSE surfaces[ref]

\* ------------------------------------------------------------ the RwLock
\* state.read(): granted when no writer holds the lock (writers hold it only
\* within one step) and, on a writers-first lock, no writer is waiting.
CanAcquireRead(t) == rwPolicy = "readers_first" \/ frameWaiters = {}

\* A write lock granted whatever read guards are alive.
CanAcquireWrite_Ignoring(t) == TRUE

\* state.write(): granted when no read guard is alive.
CanAcquireWrite(t) == \A u \in Threads : frameReaders[u] = 0

\* An object write lock granted whatever read guards are alive.
CanWriteObject_Unguarded(c) == TRUE

\* Object state.write(): granted when no read guard on the cell is alive.
CanWriteObject(c) == objReaders[c] = 0

\* The context calls cs are issued on the frame's context: they act on the
\* context and on the pixels of its target surface, and are logged.
Issue(cs) ==
    LET st == ExecCalls([cx |-> context, px |-> surfaces[context.target].pixels,
                         log |-> calls], cs)
    IN  /\ context' = st.cx
        /\ surfaces' = [surfaces EXCEPT ![context.target].pixels =
                            IF Paintable(surfaces[context.target]) THEN st.px ELSE @]
        /\ calls' = st.log

\* ------------------------------------------------------- draw(): render
\* A caller starts draw() or to_image() (which is surface(): draw(), then
\* the target of the context).
DrawCall(t) ==
    /\ t = "render"
    /\ pc[t] = "idle"
    /\ nDraws < MaxDraws
    /\ \E name \in {"draw", "to_image"} :
          /\ name = "to_image" => Len(images) < MaxImages
          /\ pend' = [pend EXCEPT ![t] = [name |-> name, arg |-> <<>>]]
    /\ pc' = [pc EXCEPT ![t] = "draw_rd"]
    /\ nDraws' = nDraws + 1
    /\ UNCHANGED << offFrame, frames,
                    frameVars, ctxVars, objVars, lockVars, images, passVars, histVars,
                    nAppCalls >>

\* draw(): let state = self.state.read().unwrap();
DrawAcquire(t) ==
    /\ pc[t] = "draw_rd"
    /\ CanAcquireRead(t)
    /\ frameReaders' = [frameReaders EXCEPT ![t] = @ + 1]
    /\ pc' = [pc EXCEPT ![t] = "draw_bg"]
    /\ calls' = <<>>
    /\ passList' = contents
    /\ dirty' = FALSE
    /\ UNCHANGED << offFrame, frames,
                    frameVars, ctxVars, objVars, frameWaiters, rwPolicy, objReaders,
                    imgOwner, images, pend, idx, mat, prev, countVars >>

\* draw(): the block holding the context: background and save().
DrawBackground(t) ==
    /\ pc[t] = "draw_bg"
    /\ Issue(BackgroundCalls(size, viewport, pixel_ratio))
    /\ idx' = 1
    /\ pc' = [pc EXCEPT ![t] = "draw_obj"]
    /\ UNCHANGED << offFrame, frames, frameVars, objVars, lockVars, images, pend, mat, passList,
                    histVars, countVars >>

\* The order in which draw() visits the list: state.contents.iter().
NthObject(list, i) == list[i]

\* draw(): the closure of for_each takes the object's read guard and its matrix.
DrawNextObject(t) ==
    /\ pc[t] = "draw_obj"
    /\ idx <= Len(contents)
    /\ LET c == NthObject(contents, idx)
       IN  /\ objReaders' = [objReaders EXCEPT ![c] = @ + 1]
           /\ mat' = objects[c].orientation
           /\ pc' = [pc EXCEPT ![t] =
                        IF objects[c].content.kind = "Path" THEN "dp_rd" ELSE "dt_rd"]
    /\ UNCHANGED << offFrame, frames,
                    frameVars, ctxVars, objVars, frameLock, imgOwner, images, pend,
                    idx, calls, passList, histVars, countVars >>

\* The running pass has painted every object of the list.
PassComplete(t) == pc[t] = "draw_obj" /\ idx > Len(contents)

\* draw() returns: its read guard is dropped.
DrawEnd(t) ==
    /\ PassComplete(t)
    /\ frameReaders' = [frameReaders EXCEPT ![t] = @ - 1]
    /\ prev' = IF dirty THEN NoPass ELSE [valid |-> TRUE, calls |-> calls]
    /\ calls' = <<>>
    /\ passList' = <<>>
    /\ idx' = 0
    /\ mat' = TIdentity
    /\ pc' = [pc EXCEPT ![t] = IF pend[t].name = "to_image" THEN "surf_rd" ELSE "idle"]
    /\ pend' = [pend EXCEPT ![t] = IF pend[t].name = "to_image" THEN @ ELSE NoCall]
    /\ UNCHANGED << offFrame, frames,
                    frameVars, ctxVars, objVars, frameWaiters, rwPolicy, objReaders,
                    imgOwner, images, dirty, countVars >>

\* draw_path: state.read() again, then the block that resets the transform.
DrawPathEnter(t) ==
    /\ pc[t] = "dp_rd"
    /\ CanAcquireRead(t)
    /\ frameReaders' = [frameReaders EXCEPT ![t] = @ + 1]
    /\ Issue(ResetTransform("draw_path", NthObject(contents, idx), mat))
    /\ pc' = [pc EXCEPT ![t] = "ds_rd"]
    /\ UNCHANGED << offFrame, frames,
                    frameVars, objVars, frameWaiters, rwPolicy, objReaders, imgOwner,
                    images, pend, idx, mat, passList, histVars, countVars >>

\* draw_shadows: state.read() a third time, the shadows, guards dropped on return.
DrawShadows(t) ==
    /\ pc[t] = "ds_rd"
    /\ CanAcquireRead(t)
    /\ LET c == NthObject(contents, idx)
       IN  Issue(DrawShadowsCalls(mat, objects[c].content, c))
    /\ pc' = [pc EXCEPT ![t] = "dp_paint"]
    /\ UNCHANGED << offFrame, frames,
                    frameVars, objVars, lockVars, images, pend, idx, mat, passList,
                    histVars, countVars >>

\* draw_path: path construction, stroke and fill; then draw_path's guard and
\* the object's guard are dropped and the iteration moves on.
\* A panic in the texture match unwinds the thread out of draw(): the calls
\* made so far stay made, and the guards of draw_path, of the object and of
\* draw() are dropped.
DrawPathPaint(t) ==
    /\ pc[t] = "dp_paint"
    /\ LET c == NthObject(contents, idx)
           entity == objects[c].content
       IN  IF PathPanics(entity)
           THEN /\ Issue(DrawPathCallsToPanic(entity, pixel_ratio, c))
                /\ objReaders' = [objReaders EXCEPT ![c] = @ - 1]
                /\ frameReaders' = [frameReaders EXCEPT ![t] = 0]
                /\ idx' = idx
                /\ pc' = [pc EXCEPT ![t] = "panicked"]
                /\ pend' = [pend EXCEPT ![t] = NoCall]
           ELSE /\ Issue(DrawPathCalls(entity, pixel_ratio, c))
                /\ objReaders' = [objReaders EXCEPT ![c] = @ - 1]
                /\ frameReaders' = [frameReaders EXCEPT ![t] = @ - 1]
                /\ idx' = idx + 1
                /\ pc' = [pc EXCEPT ![t] = "draw_obj"]
                /\ pend' = pend
    /\ UNCHANGED << offFrame, frames, frameVars, objVars, frameWaiters, rwPolicy, imgOwner, images,
                    mat, passList, histVars, countVars >>

\* draw_text: the block with its own state.read() that resets the transform.
DrawTextEnter(t) ==
    /\ pc[t] = "dt_rd"
    /\ CanAcquireRead(t)
    /\ Issue(ResetTransform("draw_text", NthObject(contents, idx), mat))
    /\ pc' = [pc EXCEPT ![t] = "lt_rd"]
    /\ UNCHANGED << offFrame, frames,
                    frameVars, objVars, lockVars, images, pend, idx, mat, passList,
                    histVars, countVars >>

\* layout_text, called by draw_text: state.read() and the context.
LayoutText(t) ==
    /\ pc[t] = "lt_rd"
    /\ CanAcquireRead(t)
    /\ LET c == NthObject(contents, idx)
       IN  Issue(LayoutTextCalls(objects[c].content, c))
    /\ pc' = [pc EXCEPT ![t] = "dt_show"]
    /\ UNCHANGED << offFrame, frames,
                    frameVars, objVars, lockVars, images, pend, idx, mat, passList,
                    histVars, countVars >>

\* draw_text: state.read() again and show_layout; the object's guard is dropped.
DrawTextShow(t) ==
    /\ pc[t] = "dt_show"
    /\ CanAcquireRead(t)
    /\ LET c == NthObject(contents, idx)
       IN  /\ Issue(<< Call("draw_text", "show_layout", c, <<>>) >>)
           /\ objReaders' = [objReaders EXCEPT ![c] = @ - 1]
    /\ idx' = idx + 1
    /\ pc' = [pc EXCEPT ![t] = "draw_obj"]
    /\ UNCHANGED << offFrame, frames, frameVars, objVars, frameLock, imgOwner, images, pend, mat,
                    passList, histVars, countVars >>

\* Frame::get_size(): state.read().unwrap().size, the value returned to a
\* caller whose read of the frame is granted in the current state.
GetSize == size

\* A deep copy of the target surface instead of a reference to it.
GetTarget_Copy(surfs, cx) ==
    [surfs |-> Append(surfs, surfs[cx.target]), ref |-> Len(surfs) + 1]

\* context.get_target(): a reference to the surface the context draws on; a
\* context in an error status returns cairo's error surface instead.
GetTarget(surfs, cx) ==
    [surfs |-> surfs, ref |-> IF cx.status = "ok" THEN cx.target ELSE NilRef]

\* surface() after its draw(): CairoImage::new(CairoSurface(ImageSurface::from(
\* state.read().context.lock().get_target()))); to_image() returns it.
\* shot, sizeAt, ctxAt and ctxOk record the pixels, the frame size, the
\* context's target surface and whether its status was ok, at the return.
Surface(t) ==
    /\ pc[t] = "surf_rd"
    /\ CanAcquireRead(t)
    /\ LET got == GetTarget(surfaces, context)
       IN  /\ surfaces' = got.surfs
           /\ images' = Append(images, [surf |-> got.ref,
                                        shot |-> IF got.ref = NilRef THEN <<>>
                                                 ELSE got.surfs[got.ref].pixels,
                                        sizeAt |-> GetSize,
                                        ctxAt |-> context.target,
                                        ctxOk |-> context.status = "ok"])
    /\ imgOwner' = Append(imgOwner, "none")
    /\ pc' = [pc EXCEPT ![t] = "idle"]
    /\ pend' = [pend EXCEPT ![t] = NoCall]
    /\ UNCHANGED << offFrame, frames, frameVars, context, objVars, frameLock, objReaders, passVars,
                    histVars, countVars >>

\* CairoImage::get_size(): the first self.0.lock().unwrap() of the tuple
\* expression; its guard is a temporary that lives to the end of the expression.
ImageGetSizeLock(t) ==
    /\ t = "render"
    /\ pc[t] = "idle"
    /\ \E i \in 1..Len(images) :
          /\ imgOwner[i] = "none"
          /\ imgOwner' = [imgOwner EXCEPT ![i] = t]
          /\ pend' = [pend EXCEPT ![t] = [name |-> "image_get_size", arg |-> <<i>>]]
    /\ pc' = [pc EXCEPT ![t] = "gs_lock2"]
    /\ UNCHANGED << offFrame, frames, frameVars, ctxVars, objVars, frameLock, objReaders, images,
                    passVars, histVars, countVars >>

\* CairoImage::get_size(): the second self.0.lock().unwrap().  When the image's
\* mutex is free it is taken and the call returns; when this thread already
\* holds it, std's Mutex either blocks forever (no step) or panics.
ImageGetSizeRelock(t) ==
    /\ pc[t] = "gs_lock2"
    /\ LET i == pend[t].arg[1]
       IN  /\ imgOwner[i] \in {"none", t}
           /\ pc' = [pc EXCEPT ![t] = IF imgOwner[i] = t THEN "panicked" ELSE "idle"]
           /\ imgOwner' = [imgOwner EXCEPT ![i] = IF @ = t THEN "poisoned" ELSE @]
    /\ pend' = [pend EXCEPT ![t] = NoCall]
    /\ UNCHANGED << offFrame, frames, frameVars, ctxVars, objVars, frameLock, objReaders, images,
                    passVars, histVars, countVars >>

\* ---------------------------------------------------- frame writers: app
\* A caller enters add/resize/set_viewport/set_pixel_ratio and blocks in
\* self.state.write() until the lock is granted.  The call's argument is not
\* read before the lock is granted; it is drawn there.
FrameWriteCall(t) ==
    /\ t = "app"
    /\ pc[t] = "idle"
    /\ nAppCalls < MaxAppCalls
    /\ \E name \in {"add", "resize", "set_viewport", "set_pixel_ratio"} :
          pend' = [pend EXCEPT ![t] = [name |-> name, arg |-> <<>>]]
    /\ nAppCalls' = nAppCalls + 1
    /\ pc' = [pc EXCEPT ![t] = "wr_wait"]
    /\ frameWaiters' = frameWaiters \cup {t}
    /\ UNCHANGED << offFrame, frames,
                    frameVars, ctxVars, objVars, frameReaders, rwPolicy, objReaders,
                    imgOwner, images, passVars, histVars, nDraws >>

\* The write lock is granted to the waiting call; the call runs to its return
\* within the step.
Granted(t, name) ==
    /\ pc[t] = "wr_wait"
    /\ pend[t].name = name
    /\ pc' = [pc EXCEPT ![t] = "idle"]
    /\ pend' = [pend EXCEPT ![t] = NoCall]
    /\ frameWaiters' = frameWaiters \ {t}
    /\ dirty' = TRUE
    /\ prev' = NoPass

\* CairoObject::new(content, orientation, depth)
NewObject(input) ==
    [orientation |-> input.transform, content |-> input.content, depth |-> input.depth]

\* A clone that copies the object's state into a cell of its own.
ObjectClone_Deep(objs, c) == [objs |-> Append(objs, objs[c]), ref |-> Len(objs) + 1]

\* #[derive(Clone)] on CairoObject { state: Arc<..> }: the clone refers to the
\* same cell.
ObjectClone(objs, c) == [objs |-> objs, ref |-> c]

\* An insertion at the head of the list.
PushObject_Front(list, c) == <<c>> \o list

\* state.contents.push(object.clone())
PushObject(list, c) == Append(list, c)

\* add() without waiting for the readers of the frame to leave.
AddMayProceed_Unlocked(t) == TRUE

\* add(): let mut state = self.state.write().unwrap();
AddMayProceed(t) == CanAcquireWrite(t)

ReadersFor(objs) ==
    [c \in 1..Len(objs) |-> IF c <= Len(objReaders) THEN objReaders[c] ELSE 0]

\* The record of the cells objs: a cell made just now has the orientation it
\* was constructed with and no apply_transform() yet.
OrderFor(order, objs) ==
    [c \in 1..Len(objs) |->
        IF c <= Len(order) THEN order[c]
        ELSE [base |-> objs[c].orientation, applied |-> <<>>]]

\* Frame::add(content): the new object, a clone of it pushed on the list, the
\* object itself boxed and returned as the caller's handle.
Add(t) ==
    /\ Granted(t, "add")
    /\ AddMayProceed(t)
    /\ \E input \in AddInputs :
       LET c == Len(objects) + 1
           cl == ObjectClone(Append(objects, NewObject(input)), c)
       IN  /\ objects' = cl.objs
           /\ contents' = PushObject(contents, cl.ref)
           /\ handles' = Append(handles, [cell |-> c, pos |-> Len(contents) + 1])
           /\ objReaders' = ReadersFor(cl.objs)
           /\ lockOrder' = OrderFor(lockOrder, cl.objs)
    /\ UNCHANGED << offFrame, frames, viewport, size, pixel_ratio, ctxVars, frameReaders, rwPolicy,
                    imgOwner, images, passVars, countVars >>

\* A resize that keeps the context, and with it the surface, it had.
ResizedContext_Kept(cx, n) == cx

\* resize(): state.context = Mutex::new(CairoContext(cairo::Context::new(&surface)))
ResizedContext(cx, n) == NewContext(n)

\* Frame::resize(size)
Resize(t) ==
    /\ Granted(t, "resize")
    /\ CanAcquireWrite(t)
    /\ \E s \in ResizeInputs :
          /\ size' = s
          /\ surfaces' = Append(surfaces, NewSurface(s))
          /\ context' = ResizedContext(context, Len(surfaces) + 1)
    /\ UNCHANGED << offFrame, frames,
                    contents, viewport, pixel_ratio, objVars, frameReaders, rwPolicy,
                    objReaders, imgOwner, images, passVars, countVars >>

\* Frame::set_viewport(viewport)
SetViewport(t) ==
    /\ Granted(t, "set_viewport")
    /\ CanAcquireWrite(t)
    /\ \E v \in ViewportInputs : viewport' = v
    /\ UNCHANGED << offFrame, frames, contents, size, pixel_ratio, ctxVars, objVars, frameReaders,
                    rwPolicy, objReaders, imgOwner, images, passVars, countVars >>

\* Frame::set_pixel_ratio(ratio)
SetPixelRatio(t) ==
    /\ Granted(t, "set_pixel_ratio")
    /\ CanAcquireWrite(t)
    /\ \E r \in RatioInputs : pixel_ratio' = r
    /\ UNCHANGED << offFrame, frames,
                    contents, viewport, size, ctxVars, objVars, frameReaders, rwPolicy,
                    objReaders, imgOwner, images, passVars, countVars >>

\* -------------------------------------------------- Object methods: app
\* Transform::transform(other): matrix concatenation, other applied first.
\* Both are arrays [xx, xy, yx, yy, x0, y0].
ComposeTransform(a, b) ==
    LET m == MatMul(<<b[1], b[3], b[2], b[4], b[5], b[6]>>,
                    <<a[1], a[3], a[2], a[4], a[5], a[6]>>)
    IN  <<m[1], m[3], m[2], m[4], m[5], m[6]>>

\* Object::get_transform(): self.state.read().unwrap().orientation
GetTransform(h) == objects[handles[h].cell].orientation

\* Object::get_depth(): self.state.read().unwrap().depth
GetDepth(h) == objects[handles[h].cell].depth

\* A mutator of an object: the cell's write lock is taken, one field is
\* assigned and the lock is dropped, within the call.
ObjectWrite(t, h) ==
    /\ t = "app"
    /\ pc[t] = "idle"
    /\ nAppCalls < MaxAppCalls
    /\ CanWriteObject(handles[h].cell)
    /\ nAppCalls' = nAppCalls + 1
    /\ dirty' = TRUE
    /\ prev' = NoPass
    /\ UNCHANGED << offFrame, frames,
                    frameVars, ctxVars, handles, lockVars, images, pc, pend, passVars,
                    nDraws >>

\* Object::set_transform(transform)
SetTransform(t) ==
    \E h \in 1..Len(handles), tr \in TransformInputs :
        /\ ObjectWrite(t, h)
        /\ objects' = [objects EXCEPT ![handles[h].cell].orientation = tr]
        /\ lockOrder' = [lockOrder EXCEPT ![handles[h].cell] =
                            [base |-> tr, applied |-> <<>>]]

\* The state with the transform in place of what the orientation was.
Transformed_Replacing(state, tr) == [state EXCEPT !.orientation = tr]

\* self.state.write().unwrap().orientation.transform(transform): under the
\* one write guard the orientation is read, composed and stored.
Transformed(state, tr) ==
    [state EXCEPT !.orientation = ComposeTransform(state.orientation, tr)]

\* Object::apply_transform(transform)
ApplyTransform(t) ==
    \E h \in 1..Len(handles), tr \in TransformInputs :
        /\ ObjectWrite(t, h)
        /\ objects' = [objects EXCEPT ![handles[h].cell] = Transformed(@, tr)]
        /\ lockOrder' = [lockOrder EXCEPT ![handles[h].cell].applied = Append(@, tr)]

\* Object::update(input)
Update(t) ==
    \E h \in 1..Len(handles), input \in UpdateInputs :
        /\ ObjectWrite(t, h)
        /\ objects' = [objects EXCEPT ![handles[h].cell].content = input]
        /\ UNCHANGED lockOrder

\* Object::set_depth(depth)
SetDepth(t) ==
    \E h \in 1..Len(handles), d \in DepthInputs :
        /\ ObjectWrite(t, h)
        /\ objects' = [objects EXCEPT ![handles[h].cell].depth = d]
        /\ UNCHANGED lockOrder

\* Object::box_clone(): Box::new(self.clone())
BoxClone(t) ==
    /\ t = "app"
    /\ pc[t] = "idle"
    /\ nAppCalls < MaxAppCalls
    /\ nAppCalls' = nAppCalls + 1
    /\ \E h \in 1..Len(handles) :
          LET cl == ObjectClone(objects, handles[h].cell)
          IN  /\ objects' = cl.objs
              /\ handles' = Append(handles, [cell |-> cl.ref, pos |-> handles[h].pos])
              /\ objReaders' = ReadersFor(cl.objs)
              /\ lockOrder' = OrderFor(lockOrder, cl.objs)
    /\ UNCHANGED << offFrame, frames,
                    frameVars, ctxVars, frameLock, imgOwner, images, pc, pend, passVars,
                    histVars, nDraws >>

\* ------------------------------------------------- handles to the frame
MaxFrames == 2

\* A clone that copies the state into a new RwLock of its own.
StateClone_Deep(ref) == ref + 1

\* self.state.clone() on the Arc<RwLock<CairoFrameState>>: the same state.
StateClone(ref) == ref

\* A new handle made from the handle f; no lock is taken.
NewHandle(t, f) ==
    /\ t = "app"
    /\ pc[t] = "idle"
    /\ nAppCalls < MaxAppCalls
    /\ Len(frames) < MaxFrames
    /\ nAppCalls' = nAppCalls + 1
    /\ frames' = Append(frames, StateClone(frames[f]))

\* impl Clone for CairoFrame: clone()
FrameClone(t) ==
    /\ \E f \in 1..Len(frames) : NewHandle(t, f)
    /\ UNCHANGED << offFrame, frameVars, ctxVars, objVars, lockVars, images, pc, pend,
                    passVars, histVars, nDraws >>

\* Frame::box_clone(): Box::new(CairoFrame { state: self.state.clone() })
FrameBoxClone(t) ==
    /\ \E f \in 1..Len(frames) : NewHandle(t, f)
    /\ UNCHANGED << offFrame, frameVars, ctxVars, objVars, lockVars, images, pc, pend,
                    passVars, histVars, nDraws >>

\* ------------------------------------------------------ the specification
Next ==
    \E t \in Threads :
        \/ DrawCall(t)
        \/ DrawAcquire(t)
        \/ DrawBackground(t)
        \/ DrawNextObject(t)
        \/ DrawEnd(t)
        \/ DrawPathEnter(t)
        \/ DrawShadows(t)
        \/ DrawPathPaint(t)
        \/ DrawTextEnter(t)
        \/ LayoutText(t)
        \/ DrawTextShow(t)
        \/ Surface(t)
        \/ ImageGetSizeLock(t)
        \/ ImageGetSizeRelock(t)
        \/ FrameWriteCall(t)
        \/ Add(t)
        \/ Resize(t)
        \/ SetViewport(t)
        \/ SetPixelRatio(t)
        \/ SetTransform(t)
        \/ ApplyTransform(t)
        \/ Update(t)
        \/ SetDepth(t)
        \/ BoxClone(t)
        \/ FrameClone(t)
        \/ FrameBoxClone(t)

Spec == Init /\ [][Next]_vars

\* ------------------------------------------- draw() on a populated frame
MaxObjects == 3

\* A path that has neither a stroke nor a fill.
PathHollow ==
    PathEntity(<<LineTo(<<1, 0>>), LineTo(<<1, 1>>)>>, NoStroke, NoFill, <<>>, FALSE,
               <<1, 1>>)

\* A path whose stroke is an image of this backend.
PathTextured ==
    PathEntity(<<LineTo(<<2, 0>>), LineTo(<<2, 2>>)>>,
               StrokeOf(ImageTexture("CairoImage"), 1, "Butt", "Miter"), FillOf(Solid(Red)),
               <<>>, FALSE, <<2, 2>>)

\* Paths with an image of another type, as the fill and as the stroke.
PathForeignFill ==
    PathEntity(<<LineTo(<<2, 0>>), LineTo(<<2, 2>>)>>,
               StrokeOf(Solid(Black), 1, "Butt", "Miter"), FillOf(ImageTexture("Other")),
               <<>>, TRUE, <<2, 2>>)

PathForeignStroke ==
    PathEntity(<<LineTo(<<2, 0>>), LineTo(<<2, 2>>)>>,
               StrokeOf(ImageTexture("Other"), 1, "Butt", "Miter"), FillOf(Solid(Red)),
               <<>>, TRUE, <<2, 2>>)

\* A stroked horizontal line with a shadow: its bounding box has no height.
PathLine ==
    PathEntity(<<LineTo(<<2, 0>>)>>, StrokeOf(Solid(Black), 1, "Butt", "Miter"), NoFill,
               <<Shadow(Black, <<1, 1>>, 0, 0)>>, FALSE, <<2, 0>>)

\* A scale by 0 in both directions.
TZero == <<0, 0, 0, 0, 0, 0>>

\* The objects a populated frame is made of.
PassInputs ==
    { ContentOf(PathA, TScale, 2), ContentOf(PathHollow, TTranslate, 1),
      ContentOf(PathTextured, TRotate, 0), ContentOf(PathForeignFill, TIdentity, 0),
      ContentOf(PathForeignStroke, TIdentity, 0), ContentOf(PathC, TZero, 0),
      ContentOf(PathLine, TIdentity, 0),
      ContentOf(TextA, TRotate, 0) }

\* The frame after resize(CanvasSize), set_viewport(CanvasViewport),
\* set_pixel_ratio(r) and add() for each entry of list.
Populated(list, r) ==
    /\ contents = [i \in 1..Len(list) |-> i]
    /\ viewport = Rect(Vec(0, 0), Vec(4, 4))
    /\ size = Vec(4, 4)
    /\ pixel_ratio = r
    /\ surfaces = << NewSurface(Vec(0, 0)), NewSurface(Vec(4, 4)) >>
    /\ context = NewContext(2)
    /\ frameReaders = [t \in Threads |-> 0]
    /\ frameWaiters = {}
    /\ rwPolicy = "readers_first"
    /\ objects = [i \in 1..Len(list) |-> NewObject(list[i])]
    /\ objReaders = [i \in 1..Len(list) |-> 0]
    /\ handles = [i \in 1..Len(list) |-> [cell |-> i, pos |-> i]]
    /\ lockOrder = OrderFor(<<>>, objects)
    /\ images = <<>>
    /\ imgOwner = <<>>
    /\ pc = [t \in Threads |-> "idle"]
    /\ pend = [t \in Threads |-> NoCall]
    /\ idx = 0
    /\ mat = TIdentity
    /\ calls = <<>>
    /\ passList = <<>>
    /\ dirty = TRUE
    /\ prev = NoPass
    /\ nDraws = 0
    /\ nAppCalls = MaxAppCalls
    /\ frames = <<1>>

InitPass ==
    /\ \E n \in 1..MaxObjects, r \in {1} \cup RatioInputs :
          \E list \in [1..n -> PassInputs] : Populated(list, r)
    /\ builder = NoBuilder
    /\ raster = NoRaster
    /\ buffer = NoBuffer
    /\ blurRun = NoBlur
    /\ lastPass = NoBoxBlur
    /\ texture = NoExchange

NextPass ==
    \E t \in Threads :
        \/ DrawCall(t)
        \/ DrawAcquire(t)
        \/ DrawBackground(t)
        \/ DrawNextObject(t)
        \/ DrawEnd(t)
        \/ DrawPathEnter(t)
        \/ DrawShadows(t)
        \/ DrawPathPaint(t)
        \/ DrawTextEnter(t)
        \/ LayoutText(t)
        \/ DrawTextShow(t)
        \/ Surface(t)

SpecPass == InitPass /\ [][NextPass]_vars

\* ============================================================ path.rs
\* The builders of path.rs and the drawing of the Path they produce.
MaxSegments == 3

\* Point2D arguments of the GeometryBuilder calls.
PointInputs == { <<2, 0>>, <<2, 2>>, <<0, 2>> }

\* <<to, handle>> arguments of quadratic_to.
QuadraticInputs == { << <<2, 2>>, <<2, 0>> >>, << <<0, 2>>, <<2, 2>> >> }

\* <<to, handle_1, handle_2>> arguments of bezier_to.
BezierInputs == { << <<2, 2>>, <<2, 0>>, <<0, 2>> >> }

\* Segment vectors handed to Builder::new directly.
GeometryInputs ==
    { << LineTo(<<2, 0>>), MoveTo(<<0, 2>>), LineTo(<<2, 2>>) >>,
      << MoveTo(<<2, 0>>), LineTo(<<2, 2>>), LineTo(<<0, 2>>) >> }

\* <<width, height>> of rectangle and rounded_rectangle.
SizeInputs == { <<2, 2>>, <<4, 2>> }

\* Corner radii of rounded_rectangle.  Only radius 0 is drawn from: for it
\* every term radius * (1 - CUBIC_BEZIER_CIRCLE_APPROXIMATION_RATIO) vanishes.
RadiusInputs == { 0 }

StrokeInputs == { StrokeOf(Solid(Black), 1, "Butt", "Miter") }

FillInputs == { FillOf(Solid(Red)) }

\* Shadow2D::new(color): no offset, no blur.
Shadow2DNew(color) == [some |-> TRUE, color |-> color, offset |-> <<0, 0>>, blur |-> 0]

\* Shadow2D::blur(amount)
Shadow2DBlur(shadow, amount) == [shadow EXCEPT !.blur = amount]

BlurAmounts == { 0, 3, 7 }

ShadowInputs == { Shadow2DNew(Blue), Shadow2DBlur(Shadow2DNew(Blue), 3) }

\* self.segments.push(segment), written to put the segment in front.
Push_Front(segments, s) == <<s>> \o segments

\* self.segments.push(segment)
Push(segments, s) == Append(segments, s)

\* GeometryPrimitive::rectangle(width, height)
RectangleSegments(w, h) == << LineTo(<<w, 0>>), LineTo(<<w, h>>), LineTo(<<0, h>>) >>

\* GeometryPrimitive::rounded_rectangle(width, height, radius) for radius 0.
RoundedRectangleSegments(w, h, r) ==
    << MoveTo(<<r, 0>>),
       LineTo(<<w - r, 0>>),
       CubicTo(<<w, r>>, <<w - r, 0>>, <<w, r>>),
       LineTo(<<w, h - r>>),
       CubicTo(<<w - r, h>>, <<w, h - r>>, <<w - r, h>>),
       LineTo(<<r, h>>),
       CubicTo(<<0, h - r>>, <<r, h>>, <<0, h - r>>),
       LineTo(<<0, r>>),
       CubicTo(<<r, 0>>, <<0, r>>, <<r, 0>>) >>

\* Builder::new(geometry)
BuilderOf(geometry, made, by) ==
    [ stage |-> "builder", segments |-> geometry, closed |-> FALSE, fill |-> NoFill,
      stroke |-> NoStroke, shadow |-> NoShadow, made |-> made, by |-> by ]

\* GeometryBuilder::new()
GeometryBuilderNew ==
    /\ builder.stage = "none"
    /\ builder' = [NoBuilder EXCEPT !.stage = "geometry", !.by = <<"GeometryBuilder">>]
    /\ UNCHANGED << raster, frameAll, blurVars >>

\* The GeometryBuilder after one more segment was pushed.
Pushed(b, s) == [b EXCEPT !.segments = Push(@, s), !.made = Append(@, s)]

\* GeometryBuilder::line_to(to)
GeometryLineTo ==
    /\ builder.stage = "geometry"
    /\ Len(builder.segments) < MaxSegments
    /\ \E to \in PointInputs : builder' = Pushed(builder, LineTo(to))
    /\ UNCHANGED << raster, frameAll, blurVars >>

\* GeometryBuilder::quadratic_to(to, handle)
GeometryQuadraticTo ==
    /\ builder.stage = "geometry"
    /\ Len(builder.segments) < MaxSegments
    /\ \E q \in QuadraticInputs : builder' = Pushed(builder, QuadraticTo(q[1], q[2]))
    /\ UNCHANGED << raster, frameAll, blurVars >>

\* GeometryBuilder::bezier_to(to, handle_1, handle_2)
GeometryBezierTo ==
    /\ builder.stage = "geometry"
    /\ Len(builder.segments) < MaxSegments
    /\ \E b \in BezierInputs : builder' = Pushed(builder, CubicTo(b[1], b[2], b[3]))
    /\ UNCHANGED << raster, frameAll, blurVars >>

\* GeometryBuilder::done()
GeometryDone ==
    /\ builder.stage = "geometry"
    /\ builder' = BuilderOf(builder.segments, builder.made, builder.by)
    /\ UNCHANGED << raster, frameAll, blurVars >>

\* GeometryPrimitive::rectangle(width, height)
Rectangle ==
    /\ builder.stage = "none"
    /\ \E sz \in SizeInputs :
          builder' = BuilderOf(RectangleSegments(sz[1], sz[2]),
                               RectangleSegments(sz[1], sz[2]),
                               <<"rectangle", sz[1], sz[2], 0>>)
    /\ UNCHANGED << raster, frameAll, blurVars >>

\* GeometryPrimitive::rounded_rectangle(width, height, radius)
RoundedRectangle ==
    /\ builder.stage = "none"
    /\ \E sz \in SizeInputs, r \in RadiusInputs :
          builder' = BuilderOf(RoundedRectangleSegments(sz[1], sz[2], r),
                               RoundedRectangleSegments(sz[1], sz[2], r),
                               <<"rounded_rectangle", sz[1], sz[2], r>>)
    /\ UNCHANGED << raster, frameAll, blurVars >>

\* Builder::new(geometry) called with a vector of segments.
BuilderNew ==
    /\ builder.stage = "none"
    /\ \E geometry \in GeometryInputs :
          builder' = BuilderOf(geometry, geometry, <<"Builder">>)
    /\ UNCHANGED << raster, frameAll, blurVars >>

\* Builder::close()
BuilderClose ==
    /\ builder.stage = "builder"
    /\ builder' = [builder EXCEPT !.closed = TRUE]
    /\ UNCHANGED << raster, frameAll, blurVars >>

\* Builder::fill(fill)
BuilderFill ==
    /\ builder.stage = "builder"
    /\ \E f \in FillInputs : builder' = [builder EXCEPT !.fill = f]
    /\ UNCHANGED << raster, frameAll, blurVars >>

\* Builder::stroke(stroke)
BuilderStroke ==
    /\ builder.stage = "builder"
    /\ \E s \in StrokeInputs : builder' = [builder EXCEPT !.stroke = s]
    /\ UNCHANGED << raster, frameAll, blurVars >>

\* Builder::shadow(shadow)
BuilderShadow ==
    /\ builder.stage = "builder"
    /\ \E s \in ShadowInputs : builder' = [builder EXCEPT !.shadow = s]
    /\ UNCHANGED << raster, frameAll, blurVars >>

\* Builder::finalize()
Finalize ==
    /\ builder.stage = "builder"
    /\ builder' = [builder EXCEPT !.stage = "path"]
    /\ UNCHANGED << raster, frameAll, blurVars >>

MaxOf(S) == CHOOSE x \in S : \A y \in S : y <= x

\* entity.bounds().size: the extent of the outline that starts at the local
\* origin and runs through the end point of every segment.
BoundsSize(segments) ==
    LET xs == {0} \cup { segments[i].p[1] : i \in 1..Len(segments) }
        ys == {0} \cup { segments[i].p[2] : i \in 1..Len(segments) }
    IN  << MaxOf(xs) + MaxOf({0 - x : x \in xs}), MaxOf(ys) + MaxOf({0 - y : y \in ys}) >>

\* The Path as draw_path and draw_shadows read it: the shadow of the Path is
\* the one entry of entity.shadows, with no spread.
EntityOf(path) ==
    PathEntity(path.segments, path.stroke, path.fill,
               IF path.shadow.some
               THEN << Shadow(path.shadow.color, path.shadow.offset, 0, path.shadow.blur) >>
               ELSE <<>>,
               path.closed, BoundsSize(path.segments))

\* The frame a single Path is drawn on: 4x4 pixels, the viewport on all of it.
CanvasSize == Vec(4, 4)

CanvasViewport == Rect(Vec(0, 0), Vec(4, 4))

CanvasStart ==
    [cx |-> NewContext(1), px |-> <<>>, log |-> <<>>]

\* draw() for a frame whose only object is the entity, at the identity transform.
DrawOneCalls(entity) ==
    BackgroundCalls(CanvasSize, CanvasViewport, 1)
    \o ResetTransform("draw_path", 1, TIdentity)
    \o DrawShadowsCalls(TIdentity, entity, 1)
    \o DrawPathCalls(entity, 1, 1)

\* What draw() does with the entity: the calls, the paints, the final status.
Rendering(entity) ==
    LET st == ExecCalls(CanvasStart, DrawOneCalls(entity))
    IN  [drawn |-> TRUE, issued |-> DrawOneCalls(entity), px |-> st.px,
         status |-> st.cx.status]

\* frame.add(path), then draw(): the finalized Path is rasterized.
DrawPath ==
    /\ builder.stage = "path"
    /\ ~raster.drawn
    /\ raster' = Rendering(EntityOf(builder))
    /\ UNCHANGED << builder, frameAll, blurVars >>

InitPath ==
    /\ FrameNew
    /\ rwPolicy = "readers_first"
    /\ builder = NoBuilder
    /\ raster = NoRaster
    /\ buffer = NoBuffer
    /\ blurRun = NoBlur
    /\ lastPass = NoBoxBlur
    /\ texture = NoExchange

NextPath ==
    \/ GeometryBuilderNew
    \/ GeometryLineTo
    \/ GeometryQuadraticTo
    \/ GeometryBezierTo
    \/ GeometryDone
    \/ Rectangle
    \/ RoundedRectangle
    \/ BuilderNew
    \/ BuilderClose
    \/ BuilderFill
    \/ BuilderStroke
    \/ BuilderShadow
    \/ Finalize
    \/ DrawPath

SpecPath == InitPath /\ [][NextPath]_vars

\* ================================================== CairoImage::blur
\* sigma is drawn in quarters: sigma = s / SigmaDen for s in 0..MaxSigma.
SigmaDen == 4

MaxSigma == 10

SigmaInputs == 0..MaxSigma

\* <<width, height>> of the image surface.
DimInputs == { <<1, 1>>, <<2, 1>>, <<2, 2>>, <<3, 3>>, <<5, 1>>, <<5, 5>> }

\* One [u8; 4] element of the surface data.
PixelOf(v) == << v, 255 - v, v \div 2, 255 >>

\* The contents of the surface: one value everywhere, or one bright pixel
\* (the first, the last, the middle one) on black, or a ramp.
PatternInputs == { "uniform", "first", "last", "middle", "ramp" }

DataOf(w, h, pattern) ==
    [ k \in 1..(w * h) |->
        CASE pattern = "uniform" -> PixelOf(200)
          [] pattern = "first" -> PixelOf(IF k = 1 THEN 255 ELSE 0)
          [] pattern = "last" -> PixelOf(IF k = w * h THEN 255 ELSE 0)
          [] pattern = "middle" -> PixelOf(IF k = (w * h + 1) \div 2 THEN 255 ELSE 0)
          [] OTHER -> PixelOf((k * 40) % 256) ]

\* An image surface in working order: status Success, a data pointer, and
\* drawing that has not been flushed yet.
ImageSurface(w, h, data) ==
    [ width |-> w, height |-> h, data |-> data, status |-> "Success", null |-> FALSE,
      flushed |-> FALSE ]

\* Surfaces whose data cannot be borrowed: the 0 x 0 surface of a new frame
\* (status Success, no data), the error surface cairo hands out as the target
\* of a context in an error status (an error status, no data), and a surface
\* put in an error status by a failed operation (its data still there).
FaultInputs ==
    { [ImageSurface(0, 0, <<>>) EXCEPT !.null = TRUE],
      [ImageSurface(0, 0, <<>>) EXCEPT !.null = TRUE, !.status = "NoMemory"],
      [ImageSurface(3, 3, DataOf(3, 3, "ramp")) EXCEPT !.status = "NoMemory"] }

BufferInputs ==
    { ImageSurface(d[1], d[2], DataOf(d[1], d[2], p)) :
        d \in DimInputs, p \in PatternInputs } \cup FaultInputs

\* floor(sqrt(x)) for x >= 0.
ISqrt(x) == CHOOSE r \in 0..x : r * r <= x /\ (r + 1) * (r + 1) > x

\* (a / b).round() for b > 0: halves round away from zero.
RoundDiv(a, b) ==
    IF a >= 0 THEN (2 * a + b) \div (2 * b) ELSE 0 - ((2 * (0 - a) + b) \div (2 * b))

\* v as u32, v as u8: saturating.  The values drawn stay far below 2^32.
AsU32(v) == IF v < 0 THEN 0 ELSE v

AsU8(v) == IF v < 0 THEN 0 ELSE IF v > 255 THEN 255 ELSE v

\* 12 sigma^2 / n + 1 and 12 sigma^2 - n wl^2 - 4 n wl - 3 n for sigma =
\* s / SigmaDen, as fractions over n SigmaDen^2 and SigmaDen^2.
RadicandNum(s, n) == 12 * s * s + n * SigmaDen * SigmaDen

RadicandDen(n) == n * SigmaDen * SigmaDen

\* wl of boxes_for_gauss without the step to the next odd number below.
LowerWidth_Floor(s, n) == AsU32(ISqrt(RadicandNum(s, n) \div RadicandDen(n)))

\* boxes_for_gauss: wl = floor(sqrt(12 sigma^2 / n + 1)), made odd.  The
\* floor of the root of a fraction is the floor of the root of its floor.
LowerWidth(s, n) ==
    LET wl == AsU32(ISqrt(RadicandNum(s, n) \div RadicandDen(n)))
    IN  IF wl % 2 = 0 THEN wl - 1 ELSE wl

\* boxes_for_gauss(sigma, n) for sigma = s / SigmaDen.
BoxesForGauss(s, n) ==
    LET wl == LowerWidth(s, n)
        wu == wl + 2
        m == AsU32(RoundDiv(
                (n * wl * wl + 4 * n * wl + 3 * n) * SigmaDen * SigmaDen - 12 * s * s,
                (4 * wl + 4) * SigmaDen * SigmaDen))
    IN  [ i \in 1..n |-> IF i - 1 < m THEN wl ELSE wu ]

\* source[index][channel] of the code, for the 0-based index.
InBuffer(data, index) == index >= 0 /\ index < Len(data)

ByteAt(data, index, channel) == data[index + 1][channel + 1]

\* (f64::from(val) * iarr).round() as u8 with iarr = 1 / (radius + radius + 1);
\* the product is never halfway between two integers, the divisor being odd.
Averaged(val, radius) == AsU8(RoundDiv(val, radius + radius + 1))

\* One row of box_blur_h or one column of box_blur_t: ln = [base, stride,
\* count, radius, channel, fv, lv].  Step n of the three loops taken together:
\* the first radius + 1 steps add source[ri] - fv, the steps of the middle
\* loop add source[ri] - source[li], the last radius steps add lv - source[li];
\* each writes target[ti].  An index outside the slice aborts (acc.ok = FALSE).
MiddleSteps(ln) ==
    IF ln.count - ln.radius > ln.radius + 1 THEN ln.count - 2 * ln.radius - 1 ELSE 0

\* A store of the whole [u8; 4] element.
Store_Pixel(target, ti, channel, v) == [target EXCEPT ![ti + 1] = <<v, v, v, v>>]

\* target[ti][channel] = v
Store(target, ti, channel, v) == [target EXCEPT ![ti + 1][channel + 1] = v]

RECURSIVE BlurLine(_, _, _, _)
BlurLine(source, ln, n, acc) ==
    IF ~acc.ok \/ n >= 2 * ln.radius + 1 + MiddleSteps(ln) THEN acc
    ELSE LET ri == ln.base + (ln.radius + n) * ln.stride
             li == ln.base + (n - ln.radius - 1) * ln.stride
             ti == ln.base + n * ln.stride
             first == n <= ln.radius
             middle == ~first /\ n <= ln.radius + MiddleSteps(ln)
             reads == IF first THEN {ri} ELSE IF middle THEN {ri, li} ELSE {li}
             add == IF first THEN ByteAt(source, ri, ln.channel) - ln.fv
                    ELSE IF middle
                    THEN ByteAt(source, ri, ln.channel) - ByteAt(source, li, ln.channel)
                    ELSE ln.lv - ByteAt(source, li, ln.channel)
         IN  IF (\E x \in reads : ~InBuffer(source, x)) \/ ~InBuffer(acc.target, ti)
             THEN [acc EXCEPT !.ok = FALSE]
             ELSE BlurLine(source, ln, n + 1,
                    [ ok |-> TRUE,
                      val |-> acc.val + add,
                      target |-> Store(acc.target, ti, ln.channel,
                                       Averaged(acc.val + add, ln.radius)) ])

\* let mut val = (radius + 1) * fv; for j in 0..radius { val += source[ti + j * stride] }
RECURSIVE Preload(_, _, _, _)
Preload(source, ln, j, acc) ==
    IF ~acc.ok \/ j >= ln.radius THEN acc
    ELSE IF ~InBuffer(source, ln.base + j * ln.stride) THEN [acc EXCEPT !.ok = FALSE]
    ELSE Preload(source, ln, j + 1,
                 [acc EXCEPT !.val = @ + ByteAt(source, ln.base + j * ln.stride, ln.channel)])

\* The lines i, i + 1, .. of a pass in turn; res = [ok, target].  dir "h":
\* line i is row i (base i * width, stride 1, count width); dir "t": line i is
\* column i (base i, stride width, count height).
RECURSIVE BlurLines(_, _, _, _, _, _, _, _)
BlurLines(source, res, dir, width, height, radius, channel, i) ==
    IF ~res.ok \/ i >= (IF dir = "h" THEN height ELSE width) THEN res
    ELSE LET base == IF dir = "h" THEN i * width ELSE i
             stride == IF dir = "h" THEN 1 ELSE width
             count == IF dir = "h" THEN width ELSE height
             last == base + (count - 1) * stride
         IN  IF ~InBuffer(source, base) \/ ~InBuffer(source, last)
             THEN [res EXCEPT !.ok = FALSE]
             ELSE LET ln == [ base |-> base, stride |-> stride, count |-> count,
                              radius |-> radius, channel |-> channel,
                              fv |-> ByteAt(source, base, channel),
                              lv |-> ByteAt(source, last, channel) ]
                      pre == Preload(source, ln, 0,
                                [ok |-> TRUE, val |-> (radius + 1) * ln.fv,
                                 target |-> res.target])
                      out == BlurLine(source, ln, 0, pre)
                  IN  BlurLines(source, [ok |-> out.ok, target |-> out.target],
                                dir, width, height, radius, channel, i + 1)

\* box_blur_h(source, target, width, height, radius, channel)
BoxBlurH(source, target, width, height, radius, channel) ==
    BlurLines(source, [ok |-> TRUE, target |-> target], "h", width, height, radius,
              channel, 0)

\* box_blur_t(source, target, width, height, radius, channel)
BoxBlurT(source, target, width, height, radius, channel) ==
    BlurLines(source, [ok |-> TRUE, target |-> target], "t", width, height, radius,
              channel, 0)

\* box_blur(data, width, height, radius, channel): target is a copy of data,
\* box_blur_h(data -> target), then box_blur_t(target -> data).  The record
\* keeps the arguments, both results and whether each pass ran to its end.
BoxBlur(data, width, height, radius, channel) ==
    LET hr == BoxBlurH(data, data, width, height, radius, channel)
        tr == IF hr.ok THEN BoxBlurT(hr.target, data, width, height, radius, channel)
              ELSE [ok |-> FALSE, target |-> data]
    IN  [ done |-> TRUE, radius |-> radius, channel |-> channel, source |-> data,
          h |-> hr.target, hOk |-> hr.ok, t |-> tr.target, tOk |-> tr.ok ]

\* cairo_surface_flush(surface): drawing still pending reaches the data; a
\* surface in an error status is left alone.
Flush(buf) == IF buf.status = "Success" THEN [buf EXCEPT !.flushed = TRUE] ELSE buf

\* A borrow of the data whatever the surface says.
Borrowable_Unchecked(buf) == TRUE

\* The two tests after the flush: cairo_surface_status(surface) is Success
\* and cairo_image_surface_get_data(surface) is not null; otherwise
\* panic!("Cairo Surface borrow error!").
Borrowable(buf) == buf.status = "Success" /\ ~buf.null

\* blur(radius): the surface is locked and flushed, its data borrowed, and
\* boxes = boxes_for_gauss(radius, 3).  before is the data at the call.
BlurCall ==
    /\ blurRun.at = "none"
    /\ buffer' = Flush(buffer)
    /\ \E sigma \in SigmaInputs :
          blurRun' =
            IF Borrowable(Flush(buffer))
            THEN [ at |-> "boxes", call |-> "blur", sigma |-> sigma,
                   boxes |-> BoxesForGauss(sigma, 3), channel |-> 0, box |-> 1,
                   before |-> buffer.data ]
            ELSE [NoBlur EXCEPT !.at = "aborted", !.call = "blur",
                                !.before = buffer.data]
    /\ UNCHANGED << lastPass, texture, builder, raster, frameAll >>

\* get_data_ptr(): the surface is locked and flushed, and the pointer to its
\* data is returned after the same two tests.
GetDataPtr ==
    /\ blurRun.at = "none"
    /\ buffer' = Flush(buffer)
    /\ blurRun' = [NoBlur EXCEPT
                      !.at = IF Borrowable(Flush(buffer)) THEN "pointer" ELSE "aborted",
                      !.call = "get_data_ptr", !.before = buffer.data]
    /\ UNCHANGED << lastPass, texture, builder, raster, frameAll >>

\* blur(): the next self.box_blur(data, width, height, (boxes[k] - 1) / 2,
\* channel) of the loop over channel in 0..=2.  An index out of the slice
\* aborts the thread with what box_blur_t has written so far left in the data.
BoxBlurStep ==
    /\ blurRun.at = "boxes"
    /\ LET radius == (blurRun.boxes[blurRun.box] - 1) \div 2
           res == BoxBlur(buffer.data, buffer.width, buffer.height, radius,
                          blurRun.channel)
       IN  /\ lastPass' = res
           /\ buffer' = [buffer EXCEPT !.data = res.t]
           /\ blurRun' =
                IF ~(res.hOk /\ res.tOk) THEN [blurRun EXCEPT !.at = "aborted"]
                ELSE IF blurRun.box < 3 THEN [blurRun EXCEPT !.box = @ + 1]
                ELSE IF blurRun.channel < 2
                THEN [blurRun EXCEPT !.box = 1, !.channel = @ + 1]
                ELSE [blurRun EXCEPT !.at = "returned"]
    /\ UNCHANGED << texture, builder, raster, frameAll >>

\* ImageRepresentation::as_texture(&self): Image { pixels: vec![], format:
\* Texture2D { height: 0, width: 0 } }, whatever the image.
AsTexture(img) == [pixels |-> <<>>, width |-> 0, height |-> 0]

\* ImageSurface::create(Format::ARgb32, width, height): the data are zeroed,
\* and a surface without pixels has no data.
CreateSurface(w, h) ==
    [ImageSurface(w, h, [k \in 1..(w * h) |-> <<0, 0, 0, 0>>]) EXCEPT
        !.null = (w * h = 0), !.flushed = TRUE]

\* ImageRepresentation::from_texture(texture): a new surface of the texture's
\* width and height; texture.pixels is not read.
FromTexture(tex) == CreateSurface(tex.width, tex.height)

\* image.as_texture()
AsTextureCall ==
    /\ texture.stage = "none"
    /\ texture' = [texture EXCEPT !.stage = "texture", !.tex = AsTexture(buffer)]
    /\ UNCHANGED << buffer, blurRun, lastPass, builder, raster, frameAll >>

\* CairoImage::from_texture(texture) on the texture as_texture() returned.
FromTextureCall ==
    /\ texture.stage = "texture"
    /\ texture' = [texture EXCEPT !.stage = "image", !.image = FromTexture(texture.tex)]
    /\ UNCHANGED << buffer, blurRun, lastPass, builder, raster, frameAll >>

\* An image whose surface holds some data; blur() has not been called.
InitBlur ==
    /\ FrameNew
    /\ rwPolicy = "readers_first"
    /\ builder = NoBuilder
    /\ raster = NoRaster
    /\ buffer \in BufferInputs
    /\ blurRun = NoBlur
    /\ lastPass = NoBoxBlur
    /\ texture = NoExchange

NextBlur ==
    \/ BlurCall
    \/ GetDataPtr
    \/ BoxBlurStep
    \/ AsTextureCall
    \/ FromTextureCall

SpecBlur == InitBlur /\ [][NextBlur]_vars

\* ============================================================ properties
\* Positions of a thread inside draw() while it holds draw()'s read guard.
DrawPcs == {"draw_bg", "draw_obj", "dp_rd", "ds_rd", "dp_paint", "dt_rd", "lt_rd", "dt_show"}

InPass(t) == pc[t] \in DrawPcs

\* Positions where draw_path, draw_shadows, draw_text or layout_text call
\* state.read() while draw() still holds its guard.
ReacquirePcs == {"dp_rd", "ds_rd", "dt_rd", "lt_rd", "dt_show"}

\* The cells in the order in which add() created them.
AddedCells == [i \in 1..Len(objects) |-> i]

\* The cells the running pass has started to paint, in painting order: every
\* draw_path and draw_text begins with one restore().
PaintedOrder ==
    LET starts == SelectSeq(calls, LAMBDA c : c.fn \in {"draw_path", "draw_text"}
                                              /\ c.op = "restore")
    IN  [i \in 1..Len(starts) |-> starts[i].obj]

IsPrefix(a, b) == Len(a) <= Len(b) /\ a = SubSeq(b, 1, Len(a))

\* ---------------------------------------------------------------- C1
\* C1: no reachable state has the drawing thread waiting for the frame's read
\* lock (re-acquired under draw()'s own guard) while the writing thread waits
\* for the frame's write lock, neither being able to be granted.
C1_NoLockDeadlock ==
    ~ \E d \in Threads, w \in Threads :
        /\ pc[d] \in ReacquirePcs
        /\ frameReaders[d] > 0
        /\ ~CanAcquireRead(d)
        /\ pc[w] = "wr_wait"
        /\ ~CanAcquireWrite(w)

\* ---------------------------------------------------------------- C2
\* C2: a pass paints the objects in the order of their add() calls, whatever
\* their depths: what the pass has painted so far is a prefix of the added
\* cells, and a complete pass has painted all of them.
C2_PaintOrderIsAddOrder ==
    /\ IsPrefix(PaintedOrder, AddedCells)
    /\ PassComplete("render") => PaintedOrder = AddedCells

\* A complete pass over two objects, the second one given by set_depth() a
\* depth above the first one's.
C2_Witness ==
    /\ PassComplete("render")
    /\ Len(contents) = 2
    /\ PaintedOrder = <<1, 2>>
    /\ objects[2].depth \in DepthInputs
    /\ objects[1].depth < objects[2].depth

\* ---------------------------------------------------------------- C3
\* C3: every handle (from add() or box_clone()) reads the state of the list
\* entry it was made for, and the pass paints that entry with the transform
\* get_transform() returns on the handle.
C3_HandleSharesCell ==
    \A h \in 1..Len(handles) :
        LET entry == objects[contents[handles[h].pos]]
        IN  /\ GetTransform(h) = entry.orientation
            /\ GetDepth(h) = entry.depth
            /\ objects[handles[h].cell].content = entry.content
            /\ (pc["render"] \in {"dp_rd", "ds_rd", "dp_paint", "dt_rd", "lt_rd", "dt_show"}
                /\ handles[h].pos = idx) => mat = GetTransform(h)

\* A pass paints, with the transform given by set_transform(), an object that
\* was added with another transform and has a box_clone() handle.
C3_Witness ==
    /\ pc["render"] = "dp_paint"
    /\ objects[contents[idx]].content = PathA
    /\ mat \in TransformInputs
    /\ \E h1, h2 \in 1..Len(handles) :
          h1 # h2 /\ handles[h1].pos = idx /\ handles[h2].pos = idx

\* ---------------------------------------------------------------- C4
\* C4: while a pass is in progress the object list is the list the pass found
\* when it took its read guard, and the pass paints that list in order.
C4_ConsistentList ==
    InPass("render") =>
        /\ contents = passList
        /\ IsPrefix(PaintedOrder, passList)
        /\ PassComplete("render") => PaintedOrder = passList

\* A pass over two objects has completed while an add() of the other thread
\* was waiting.
C4_Witness ==
    /\ PassComplete("render")
    /\ Len(passList) = 2
    /\ pc["app"] = "wr_wait"
    /\ pend["app"].name = "add"

\* ---------------------------------------------------------------- C5
\* C5 (as stated): the list is guarded independently of the draw pass, so an
\* add() that has been called is never held up by a pass in progress.
C5_AddNotHeldUpByPass ==
    \A t \in Threads :
        (pc[t] = "wr_wait" /\ pend[t].name = "add") => CanAcquireWrite(t)

\* C5 (amended): the object list, the viewport, the size, the pixel ratio and
\* the context are fields of one state behind one lock: while any read guard
\* of a pass is alive none of them changes; only the objects' own cells do.
C5_FrameFrozenDuringPass ==
    [][(\E t \in Threads : frameReaders[t] > 0)
          => UNCHANGED << contents, viewport, size, pixel_ratio >>
             /\ context'.target = context.target]_vars

\* During a pass over two objects, a set_transform() on the object that is
\* not being painted has returned.
C5_Witness ==
    /\ pc["render"] \in {"dp_rd", "ds_rd", "dp_paint"}
    /\ dirty
    /\ nAppCalls = 3
    /\ Len(contents) = 2
    /\ \E k \in 1..2 :
          /\ k # idx
          /\ objects[contents[k]].content = PathA
          /\ objects[contents[k]].orientation \in TransformInputs

C7_ImageMatchesSize ==
    /\ surfaces[context.target].w = GetSize.x
    /\ surfaces[context.target].h = GetSize.y
    /\ \A i \in 1..Len(images) :
          /\ SurfaceOf(images[i].surf).w = images[i].sizeAt.x
          /\ SurfaceOf(images[i].surf).h = images[i].sizeAt.y

\* ---------------------------------------------------------------- C8
\* C8: a thread in CairoImage::get_size() never requests the image's mutex
\* while it holds a guard on that mutex.
C8_NoRelockWhileHeld ==
    \A t \in Threads :
        pc[t] = "gs_lock2" => imgOwner[pend[t].arg[1]] # t

\* ---------------------------------------------------------------- C9
PaintOps == {"fill", "stroke", "stroke_preserve", "show_layout"}

\* The calls of a pass as issued: function, cairo call, object, arguments and,
\* for the calls that paint, the transformation they paint under.
Issued(cs) ==
    [i \in 1..Len(cs) |->
        [cs[i] EXCEPT !.ctm = IF cs[i].op \in PaintOps THEN @ ELSE <<>>]]

\* A step of draw() by the render thread.
DrawStep == pc["render"] \in DrawPcs \cup {"draw_rd"} /\ pc'["render"] # pc["render"]

\* C9: a step of draw() leaves the list, the objects, the viewport, the size
\* and the pixel ratio unchanged, and a pass that follows a pass with no
\* mutation since that one began issues the same calls under the same
\* transforms.
C9_DrawIdempotent ==
    [][/\ DrawStep => UNCHANGED << contents, objects, viewport, size, pixel_ratio >>
       /\ (PassComplete("render") /\ prev.valid)
             => Issued(calls) = Issued(prev.calls)]_vars

\* The second of two passes with no mutation in between has completed on a
\* resized frame with a viewport and an object, the context in working order.
C9_Witness ==
    /\ PassComplete("render")
    /\ prev.valid
    /\ Paintable(surfaces[context.target])
    /\ context.status = "ok"
    /\ Len(contents) >= 1

\* ---------------------------------------------------------------- C10
\* The phase of draw_path a call belongs to: 1 a shadow's fill, 2 construction
\* of the path, 3 its stroke, 4 its fill; 0 for the other calls.
Phase(c) ==
    CASE c.fn = "draw_shadows" /\ c.op = "fill" -> 1
      [] c.fn = "draw_path" /\ c.op \in {"move_to", "line_to", "curve_to", "close_path"} -> 2
      [] c.fn = "draw_path" /\ c.op \in {"stroke", "stroke_preserve"} -> 3
      [] c.fn = "draw_path" /\ c.op = "fill" -> 4
      [] OTHER -> 0

\* C10: among the calls of a pass for one path object, every shadow fill
\* precedes the construction of the path, which precedes the stroke, which
\* precedes the fill.
C10_ShadowPathStrokeFill ==
    \A i, j \in 1..Len(calls) :
        (/\ i < j
         /\ calls[i].obj # 0
         /\ calls[i].obj = calls[j].obj
         /\ Phase(calls[i]) > 0
         /\ Phase(calls[j]) > 0) => Phase(calls[i]) <= Phase(calls[j])

\* The pass has painted a path that has a shadow, a stroke and a fill.
C10_Witness ==
    \E c \in 1..Len(objects) :
        \A ph \in 1..4 :
            \E i \in 1..Len(calls) : calls[i].obj = c /\ Phase(calls[i]) = ph

\* ------------------------------------------------ properties of path.rs
\* The current path of the context before and after the k-th call of the
\* drawing of the finalized Path.
PathBefore(k) == ExecCalls(CanvasStart, SubSeq(raster.issued, 1, k - 1)).cx.path

PathAfter(k) == ExecCalls(CanvasStart, SubSeq(raster.issued, 1, k)).cx.path

\* The Path was drawn and the context stayed in working order.
Drawn == raster.drawn /\ raster.status = "ok"

\* The paints of the drawing, after the background: the shadow's fill, the
\* stroke, the fill.
ShadowPaint == raster.px[2]

StrokePaint == raster.px[Len(raster.px) - (IF builder.fill.some THEN 1 ELSE 0)]

FillPaint == raster.px[Len(raster.px)]

\* C11: the stroke of draw_path leaves the current path in place exactly
\* when the Path also has a fill, and then the fill paints the geometry that
\* was stroked; without a fill the stroke consumes the path; every fill
\* consumes it.
C11_StrokeKeepsPathIffFill ==
    Drawn =>
        /\ \A k \in 1..Len(raster.issued) :
              LET c == raster.issued[k]
              IN  /\ (c.fn = "draw_path" /\ c.op \in {"stroke", "stroke_preserve"}) =>
                        /\ PathBefore(k) # <<>>
                        /\ PathAfter(k) = IF builder.fill.some THEN PathBefore(k) ELSE <<>>
                  /\ c.op = "fill" => PathAfter(k) = <<>>
        /\ (builder.stroke.some /\ builder.fill.some) =>
              /\ StrokePaint.kind = "stroke"
              /\ FillPaint.kind = "fill"
              /\ FillPaint.path = StrokePaint.path

\* A Path of two segments or more with a stroke and a fill was drawn.
C11_Witness ==
    /\ Drawn
    /\ builder.stroke.some
    /\ builder.fill.some
    /\ Len(builder.segments) >= 2
    /\ Len(StrokePaint.path) >= 3

\* The outline a painted path traces: one edge per line, curve and closing
\* element, from the current point; zero-length edges are left out.  A path
\* element is <<"M", x, y>>, <<"L", x, y>>, <<"C", x1, y1, x2, y2, x, y>> or <<"Z">>.
RECURSIVE EdgesFrom(_, _, _)
EdgesFrom(path, cur, start) ==
    IF path = <<>> THEN {}
    ELSE LET e == Head(path)
             to == << e[Len(e) - 1], e[Len(e)] >>
         IN  CASE e[1] = "M" -> EdgesFrom(Tail(path), to, to)
               [] e[1] = "L" ->
                    (IF to = cur THEN {} ELSE { <<cur, to>> })
                    \cup EdgesFrom(Tail(path), to, start)
               [] e[1] = "C" ->
                    (IF to = cur /\ <<e[2], e[3]>> = cur /\ <<e[4], e[5]>> = cur THEN {}
                     ELSE { <<cur, <<e[2], e[3]>>, <<e[4], e[5]>>, to>> })
                    \cup EdgesFrom(Tail(path), to, start)
               [] OTHER ->
                    (IF start = cur THEN {} ELSE { <<cur, start>> })
                    \cup EdgesFrom(Tail(path), start, start)

Edges(path) == EdgesFrom(path, <<0, 0>>, <<0, 0>>)

\* The last paint of the drawing: the fill of the Path, or its stroke when
\* it has no fill.
MainPaint == raster.px[Len(raster.px)]

\* C12: the replay of the segments in the shadow pass starts at the local
\* origin like the main construction: for a shadow without offset and spread
\* the painted shadow outline begins at the same point and has the same edges
\* as the outline that is stroked or filled.
C12_ShadowReplayStartsAtOrigin ==
    (Drawn /\ builder.shadow.some /\ (builder.stroke.some \/ builder.fill.some)) =>
        /\ Head(ShadowPaint.path) = Head(MainPaint.path)
        /\ Edges(ShadowPaint.path) = Edges(MainPaint.path)

\* The path calls of draw_path, and of the shadow pass, in the order issued.
IsPathCall(c) == c.op \in {"move_to", "line_to", "curve_to"}

IsMainPathCall(c) == c.fn = "draw_path" /\ IsPathCall(c)

IsShadowPathCall(c) == c.fn = "draw_shadows" /\ IsPathCall(c)

MainPathCalls == SelectSeq(raster.issued, IsMainPathCall)

ShadowPathCalls == SelectSeq(raster.issued, IsShadowPathCall)

\* The backend call that stands for a segment: its name and its end point.
Stands(c, s) ==
    /\ c.op = CASE s.seg = "LineTo" -> "line_to"
                 [] s.seg = "MoveTo" -> "move_to"
                 [] OTHER -> "curve_to"
    /\ << c.a[Len(c.a) - 1], c.a[Len(c.a)] >> = s.p
    /\ s.seg = "CubicTo" => c.a = s.h1 \o s.h2 \o s.p

\* C13: the k-th call of line_to / quadratic_to / bezier_to on the
\* GeometryBuilder is the k-th segment of the Builder and of the finalized
\* Path, and the drawing issues, after its move_to(0, 0), exactly one path
\* call per segment, in the order of the segments (the shadow pass likewise).
C13_SegmentsInCallOrder ==
    /\ builder.stage # "none" => builder.segments = builder.made
    /\ raster.drawn =>
          /\ Len(MainPathCalls) = Len(builder.segments) + 1
          /\ \A k \in 1..Len(builder.segments) :
                Stands(MainPathCalls[k + 1], builder.made[k])
          /\ builder.shadow.some =>
                /\ Len(ShadowPathCalls) = Len(builder.segments)
                /\ \A k \in 1..Len(builder.segments) :
                      Stands(ShadowPathCalls[k], builder.made[k])

\* A Path made by line_to, quadratic_to and bezier_to calls, three of them
\* or more, was drawn together with its shadow.
C13_Witness ==
    /\ raster.drawn
    /\ builder.by = <<"GeometryBuilder">>
    /\ builder.shadow.some
    /\ Len(builder.made) >= 3
    /\ { builder.made[k].seg : k \in 1..Len(builder.made) } =
          {"LineTo", "QuadraticTo", "CubicTo"}

\* 64 times the point at t = k/4 of the cubic Bezier curve (p0, c1, c2, p)
\* and of the quadratic Bezier curve (p0, h, p): exact in integers.
CubicAt(p0, c1, c2, p, k) ==
    LET w0 == (4 - k) * (4 - k) * (4 - k)
        w1 == 3 * k * (4 - k) * (4 - k)
        w2 == 3 * k * k * (4 - k)
        w3 == k * k * k
    IN  << w0 * p0[1] + w1 * c1[1] + w2 * c2[1] + w3 * p[1],
           w0 * p0[2] + w1 * c1[2] + w2 * c2[2] + w3 * p[2] >>

QuadraticAt(p0, h, p, k) ==
    LET w0 == 4 * (4 - k) * (4 - k)
        w1 == 8 * k * (4 - k)
        w2 == 4 * k * k
    IN  << w0 * p0[1] + w1 * h[1] + w2 * p[1], w0 * p0[2] + w1 * h[2] + w2 * p[2] >>

\* The point the k-th segment starts from: the origin, or the end point of
\* the segment before it.
StartOf(segments, k) == IF k = 1 THEN <<0, 0>> ELSE segments[k - 1].p

\* C14: the curve_to call issued for a QuadraticTo(p, h) segment describes a
\* cubic curve that passes through the same points as the quadratic Bezier
\* curve (start, h, p) at t = 1/4, 1/2 and 3/4.
C14_QuadraticDrawnAsSameCurve ==
    raster.drawn =>
        \A k \in 1..Len(builder.segments) :
            builder.segments[k].seg = "QuadraticTo" =>
                LET c == MainPathCalls[k + 1]
                    s == builder.segments[k]
                    p0 == StartOf(builder.segments, k)
                IN  \A t \in 1..3 :
                        CubicAt(p0, <<c.a[1], c.a[2]>>, <<c.a[3], c.a[4]>>,
                                <<c.a[5], c.a[6]>>, t)
                        = QuadraticAt(p0, s.h1, s.p, t)

\* The point the outline of a painted path ends at: the current point after
\* its last element (a closing element returns to the start of its subpath).
RECURSIVE EndFrom(_, _, _)
EndFrom(path, cur, start) ==
    IF path = <<>> THEN cur
    ELSE LET e == Head(path)
         IN  IF e[1] = "Z" THEN EndFrom(Tail(path), start, start)
             ELSE IF e[1] = "M"
             THEN EndFrom(Tail(path), <<e[2], e[3]>>, <<e[2], e[3]>>)
             ELSE EndFrom(Tail(path), << e[Len(e) - 1], e[Len(e)] >>, start)

LastPoint(path) == EndFrom(path, <<0, 0>>, <<0, 0>>)

\* The point the outline starts from: the move-to in effect at its first
\* line or curve.
Drawing(path) == { i \in 1..Len(path) : path[i][1] \in {"L", "C"} }

FirstPoint(path) ==
    LET i == CHOOSE i \in Drawing(path) : \A j \in Drawing(path) : i <= j
    IN  << path[i - 1][2], path[i - 1][3] >>

\* close_path calls of draw_path.
IsMainClose(c) == c.fn = "draw_path" /\ c.op = "close_path"

\* C15: the outline of a Path with closed = true is closed when it is
\* stroked: after the close step its last point is its first point, whatever
\* the segments; and draw_path issues close_path exactly when close() was
\* called on the builder.
C15_ClosedPathEndsWhereItStarts ==
    Drawn =>
        /\ (Len(SelectSeq(raster.issued, IsMainClose)) = 1) <=> builder.closed
        /\ Len(SelectSeq(raster.issued, IsMainClose)) <= 1
        /\ (builder.closed /\ builder.stroke.some /\ Drawing(StrokePaint.path) # {}) =>
              LastPoint(StrokePaint.path) = FirstPoint(StrokePaint.path)

\* The part of C15 about close_path alone.
CloseIssuedIffClosed ==
    raster.drawn => ((Len(SelectSeq(raster.issued, IsMainClose)) = 1) <=> builder.closed)

\* The drawing of the Path that rounded_rectangle(w, h, 0) gives under the
\* builder calls (close, stroke, fill, shadow) that the rectangle(w, h) at
\* hand received.
RoundedTwin ==
    Rendering(EntityOf([builder EXCEPT
        !.segments = RoundedRectangleSegments(builder.by[2], builder.by[3], 0)]))

\* C16: rounded_rectangle(w, h, 0) and rectangle(w, h), given the same
\* stroke, fill and close flag, are stroked along the same set of outline
\* edges (zero-length curves left out).
C16_RoundedZeroIsRectangle ==
    (Drawn /\ builder.by[1] = "rectangle" /\ builder.stroke.some) =>
        LET twin == RoundedTwin
            at == Len(raster.px) - (IF builder.fill.some THEN 1 ELSE 0)
        IN  /\ Len(twin.px) = Len(raster.px)
            /\ twin.px[at].kind = "stroke"
            /\ Edges(twin.px[at].path) = Edges(StrokePaint.path)

\* ------------------------------------------- properties of the box blur
\* Every element of the data is the same.
Uniform(data) == \A k \in 1..Len(data) : data[k] = data[1]

\* The box_blur call last made ran both passes to their end.
Completed == lastPass.hOk /\ lastPass.tOk

\* C17: a box blur of a buffer in which every pixel has the same value runs
\* to its end and leaves every pixel as it was, whatever the width, the
\* height and the radius.
C17_UniformBufferUnchanged ==
    (lastPass.done /\ Uniform(lastPass.source)) =>
        /\ Completed
        /\ lastPass.t = lastPass.source
        /\ buffer.data = lastPass.source

RECURSIVE SumOver(_, _, _)
SumOver(data, channel, k) ==
    IF k = 0 THEN 0 ELSE data[k][channel + 1] + SumOver(data, channel, k - 1)

\* The sum of a channel over all pixels.
ChannelSum(data, channel) == SumOver(data, channel, Len(data))

Distance(a, b) == IF a >= b THEN a - b ELSE b - a

\* C18: for a radius of at most half the smaller of width and height, a box
\* blur (horizontal, then vertical) runs to its end and changes the sum of
\* the blurred channel over all pixels by no more than the rounding of the
\* two passes, 1/2 per pixel each.
C18_BoxBlurKeepsChannelSum ==
    (lastPass.done /\ 2 * lastPass.radius <= buffer.width
                   /\ 2 * lastPass.radius <= buffer.height) =>
        /\ Completed
        /\ Distance(ChannelSum(lastPass.t, lastPass.channel),
                    ChannelSum(lastPass.source, lastPass.channel))
              <= buffer.width * buffer.height

\* The box filter with edge replication along a row (dir "h") or a column
\* (dir "t"): at 0-based row i, column j of the channel, the rounded mean of
\* the 2 radius + 1 values at offsets -radius..radius, the position clamped
\* into the row or column.
Clamp(v, lo, hi) == IF v < lo THEN lo ELSE IF v > hi THEN hi ELSE v

RECURSIVE WindowSum(_, _, _, _, _, _, _, _)
WindowSum(data, dir, width, height, channel, i, j, k) ==
    LET at == IF dir = "h" THEN i * width + Clamp(j + k, 0, width - 1)
              ELSE Clamp(i + k, 0, height - 1) * width + j
    IN  data[at + 1][channel + 1]
        + (IF k = 0 THEN 0
           ELSE IF k > 0
           THEN WindowSum(data, dir, width, height, channel, i, j, 0 - k)
           ELSE WindowSum(data, dir, width, height, channel, i, j, (0 - k) - 1))

Reference(data, dir, width, height, radius, channel) ==
    [ x \in 1..Len(data) |->
        [data[x] EXCEPT ![channel + 1] =
            RoundDiv(WindowSum(data, dir, width, height, channel,
                               (x - 1) \div width, (x - 1) % width, radius),
                     2 * radius + 1)] ]

\* C19: box_blur_h writes the box filter with edge replication along each
\* row and box_blur_t along each column, for every width, height and radius:
\* both run to their end, every value written is the rounded window mean
\* within 0..255, and nothing outside the row or column enters it.
C19_PassesAreReferenceFilter ==
    lastPass.done =>
        LET href == Reference(lastPass.source, "h", buffer.width, buffer.height,
                              lastPass.radius, lastPass.channel)
            tref == Reference(href, "t", buffer.width, buffer.height,
                              lastPass.radius, lastPass.channel)
        IN  /\ lastPass.hOk
            /\ lastPass.h = href
            /\ lastPass.tOk
            /\ lastPass.t = tref
            /\ \A x \in 1..Len(tref) : tref[x][lastPass.channel + 1] \in 0..255

\* The largest odd integer not above sqrt(12 sigma^2 / 3 + 1), sigma = s / SigmaDen.
LargestOddBelowRoot(s) ==
    CHOOSE w \in 1..(s + 1) :
        /\ w % 2 = 1
        /\ w * w * RadicandDen(3) <= RadicandNum(s, 3)
        /\ \A v \in 1..(s + 1) :
              (v % 2 = 1 /\ v * v * RadicandDen(3) <= RadicandNum(s, 3)) => v <= w

LastPlace ==
    IF blurRun.at = "returned" THEN [channel |-> 2, box |-> 3]
    ELSE IF blurRun.at = "aborted" THEN [channel |-> blurRun.channel, box |-> blurRun.box]
    ELSE IF blurRun.box > 1 THEN [channel |-> blurRun.channel, box |-> blurRun.box - 1]
    ELSE [channel |-> blurRun.channel - 1, box |-> 3]

\* C21: blur() leaves the number of pixels and byte 3 of every pixel as they
\* were at the call; one box_blur for channel c leaves the three other bytes
\* of every pixel as they were, in the horizontal pass and in the vertical
\* one; the calls come per channel 0, 1, 2 with the radii (boxes[0] - 1) / 2,
\* (boxes[1] - 1) / 2, (boxes[2] - 1) / 2 in that order; and each call that
\* runs to its end is the horizontal filter followed by the vertical filter.
C21_BlurTouchesOneChannel ==
    lastPass.done =>
        /\ Len(buffer.data) = Len(blurRun.before)
        /\ \A k \in 1..Len(buffer.data) : buffer.data[k][4] = blurRun.before[k][4]
        /\ Len(lastPass.h) = Len(lastPass.source)
        /\ Len(lastPass.t) = Len(lastPass.source)
        /\ \A k \in 1..Len(lastPass.source), b \in 1..4 :
              b # lastPass.channel + 1 =>
                  /\ lastPass.h[k][b] = lastPass.source[k][b]
                  /\ lastPass.t[k][b] = lastPass.source[k][b]
        /\ lastPass.channel = LastPlace.channel
        /\ lastPass.radius = (blurRun.boxes[LastPlace.box] - 1) \div 2
        /\ Completed =>
              lastPass.t =
                  Reference(Reference(lastPass.source, "h", buffer.width, buffer.height,
                                      lastPass.radius, lastPass.channel),
                            "t", buffer.width, buffer.height, lastPass.radius,
                            lastPass.channel)

\* blur(1.5) has returned on a 5 x 5 surface: the last call blurred channel 2
\* with a radius of 1 and changed that channel.
C21_Witness ==
    /\ blurRun.at = "returned"
    /\ buffer.width = 5
    /\ buffer.height = 5
    /\ lastPass.radius = 1
    /\ lastPass.channel = 2
    /\ lastPass.t # lastPass.source
    /\ \E k \in 1..Len(buffer.data) : buffer.data[k][1] # blurRun.before[k][1]

\* ---------------------------------------------------------------- C22
\* C22: once blur() or get_data_ptr() has been called on a surface, either
\* the surface's status is Success and its data pointer is not null, and the
\* surface was flushed before the pointer was returned or the first pixel
\* read; or the call aborted with no box_blur made and the data as they were
\* at the call.
C22_FlushThenBorrowOrAbort ==
    blurRun.call # "none" =>
        IF buffer.status = "Success" /\ ~buffer.null
        THEN /\ buffer.flushed
             /\ blurRun.call = "get_data_ptr" => blurRun.at = "pointer"
        ELSE /\ blurRun.at = "aborted"
             /\ ~lastPass.done
             /\ buffer.data = blurRun.before

\* blur() has aborted on a 3 x 3 surface that is in an error status and
\* still has its data.
C22_Witness ==
    /\ blurRun.call = "blur"
    /\ blurRun.at = "aborted"
    /\ buffer.status # "Success"
    /\ ~buffer.null
    /\ Len(buffer.data) = 9
    /\ ~lastPass.done

\* ---------------------------------------------------------------- C24
\* C24: the texture as_texture() returns for an image has the image's width
\* and height and one pixel per pixel of the image, and from_texture() of
\* that texture is an image of the same width and height.
C24_TextureRoundTrip ==
    /\ texture.stage # "none" =>
          /\ texture.tex.width = buffer.width
          /\ texture.tex.height = buffer.height
          /\ Len(texture.tex.pixels) = buffer.width * buffer.height
    /\ texture.stage = "image" =>
          /\ texture.image.width = buffer.width
          /\ texture.image.height = buffer.height

\* ---------------------------------------------------------------- C23
\* The path has, as its stroke or its fill, an image that is no CairoImage.
HasForeignImage(entity) ==
    \/ entity.stroke.some /\ entity.stroke.content.kind = "Image"
                          /\ entity.stroke.content.image # "CairoImage"
    \/ entity.fill.some /\ entity.fill.content.kind = "Image"
                        /\ entity.fill.content.image # "CairoImage"

Foreign(i) == HasForeignImage(objects[contents[i]].content)

\* The calls of the running pass that paint the object at position i.
PaintsOf(i) ==
    SelectSeq(calls, LAMBDA c : c.obj = contents[i] /\ c.op \in PaintOps
                                /\ c.fn \in {"draw_path", "draw_text"})

\* The object at position i has been painted in full by the running pass.
PaintedInFull(i) ==
    LET entity == objects[contents[i]].content
    IN  Len(PaintsOf(i)) = IF entity.kind = "Text" THEN 1
                           ELSE (IF entity.stroke.some THEN 1 ELSE 0)
                                + (IF entity.fill.some THEN 1 ELSE 0)

\* C23: a pass that reaches a path with an image of another type ends there
\* in a panic and never returns: the objects before that path have been
\* painted in full, the image has not been used for a paint, no call has been
\* made for an object after it, and the step that aborts the pass leaves the
\* object list, the objects, the viewport, the size and the pixel ratio as
\* they were when the pass began.
C23_ForeignImageAbortsPass ==
    /\ [](/\ \A i \in 1..Len(contents) :
                (InPass("render") /\ Foreign(i)) =>
                    /\ idx <= i
                    /\ ~PassComplete("render")
                    /\ \A c \in 1..Len(calls) : calls[c].obj <= contents[i]
          /\ pc["render"] = "panicked" =>
                /\ Foreign(idx)
                /\ contents = passList
                /\ \A j \in 1..(idx - 1) : PaintedInFull(j)
                /\ \A c \in 1..Len(PaintsOf(idx)) :
                      /\ PaintsOf(idx)[c].op # "fill"
                      /\ objects[contents[idx]].content.stroke.content.kind # "Image"
                /\ frameReaders["render"] = 0
                /\ objReaders[contents[idx]] = 0)
    /\ [][pc'["render"] = "panicked" =>
             UNCHANGED << contents, objects, viewport, size, pixel_ratio >>]_vars

\* A pass over three objects has aborted at the second, whose fill is a
\* foreign image, after painting the first and stroking the second.
C23_Witness ==
    /\ pc["render"] = "panicked"
    /\ Len(contents) = 3
    /\ idx = 2
    /\ objects[contents[1]].content = PathA
    /\ objects[contents[2]].content = PathForeignFill
    /\ PaintedInFull(1)
    /\ Len(PaintsOf(2)) = 1
    /\ Len(PaintsOf(3)) = 0

\* ---------------------------------------------------------------- C25
\* C25: every handle made by clone() or box_clone() refers to the state the
\* handle it was made from refers to, so add(), resize(), set_viewport() and
\* set_pixel_ratio() through one handle and get_size(), draw() and to_image()
\* through another act on one state in every interleaving; and making a
\* handle creates no surface and changes nothing in that state.
C25_ClonesShareState ==
    /\ [](\A f, g \in 1..Len(frames) : frames[f] = frames[g])
    /\ [][Len(frames') > Len(frames) =>
             UNCHANGED << surfaces, context, contents, objects, viewport, size,
                          pixel_ratio >>]_vars

\* With two handles to the frame, after a clone, an add() and a resize() in
\* some order, a pass paints the object on the surface of the resize().
C25_Witness ==
    /\ Len(frames) = 2
    /\ nAppCalls = 3
    /\ Len(contents) = 1
    /\ GetSize \in ResizeInputs
    /\ surfaces[context.target].w = GetSize.x
    /\ pc["render"] = "dp_paint"

\* ---------------------------------------------------------------- C26
\* The calls without the matrix the log adds to them.
Bare(cs) == [i \in 1..Len(cs) |-> [cs[i] EXCEPT !.ctm = <<>>]]

\* The last n calls of the running pass.
LastCalls(n) == IF n > Len(calls) THEN <<>> ELSE SubSeq(calls, Len(calls) - n + 1, Len(calls))

\* One field of the cell has been assigned a value a caller passed, or the
\* orientation multiplied by one, and the other two fields are as before.
OneFieldWritten(old, new) ==
    \/ /\ new.orientation \in TransformInputs
                              \cup { ComposeTransform(old.orientation, tr) :
                                        tr \in TransformInputs }
       /\ new.content = old.content
       /\ new.depth = old.depth
    \/ /\ new.content \in UpdateInputs
       /\ new.orientation = old.orientation
       /\ new.depth = old.depth
    \/ /\ new.depth \in DepthInputs
       /\ new.orientation = old.orientation
       /\ new.content = old.content

BaseMatrix == BackgroundCalls(size, viewport, pixel_ratio)[2].a

\* The matrix draw_path passes to context.transform for the orientation.
OwnMatrix(orientation) == ResetTransform("draw_path", 0, orientation)[3].a

\* The scale of each shadow of the entity is a finite, nonzero number.
ShadowsRegular(entity) ==
    \A k \in 1..Len(entity.shadows) :
        /\ entity.bsize[1] # 0
        /\ entity.bsize[2] # 0
        /\ entity.bsize[1] + 2 * entity.shadows[k].spread # 0
        /\ entity.bsize[2] + 2 * entity.shadows[k].spread # 0

\* C27: when the path construction of an object begins, the context's matrix
\* is the object's own matrix applied on the pass's base matrix, for every
\* object whose own matrix is invertible and whose own shadows have regular
\* scales, whatever objects were painted before it.
C27_OwnTransformOnBase ==
    pc["render"] = "dp_paint" =>
        LET o == objects[contents[idx]]
        IN  (MatInvertible(OwnMatrix(o.orientation)) /\ MatInvertible(BaseMatrix)
             /\ ShadowsRegular(o.content)) =>
                /\ context.status = "ok"
                /\ context.matrix = MatMul(OwnMatrix(o.orientation), BaseMatrix)

\* ---------------------------------------------------------------- C28
\* The drawn Path with another blur amount in its shadow.
WithBlur(amount) == EntityOf([builder EXCEPT !.shadow.blur = amount])

\* C28: for a drawn Path with a shadow, the Path that differs from it in the
\* shadow's blur amount only is drawn with the same calls, arguments
\* included, and the same paints; no call hands a blur to the backend; and
\* the drawing has not run CairoImage::blur() or box_blur.
C28_ShadowBlurIgnored ==
    (Drawn /\ builder.shadow.some) =>
        /\ \A amount \in BlurAmounts :
              /\ Rendering(WithBlur(amount)).issued = raster.issued
              /\ Rendering(WithBlur(amount)).px = raster.px
        /\ \A i \in 1..Len(raster.issued) :
              raster.issued[i].op \notin {"set_shadow_blur", "blur", "box_blur"}
        /\ blurRun = NoBlur
        /\ ~lastPass.done

\* A Path whose shadow has a blur amount of 3 was drawn, the shadow painted.
C28_Witness ==
    /\ Drawn
    /\ builder.shadow.some
    /\ builder.shadow.blur = 3
    /\ Len(builder.segments) >= 2
    /\ \E i \in 1..Len(raster.issued) :
          raster.issued[i].fn = "draw_shadows" /\ raster.issued[i].op = "fill"

\* ---------------------------------------------------------------- C29
\* The step in which the frame mutator name, called by the app thread, takes
\* the write lock, runs and returns.
Returns(name) ==
    pc["app"] = "wr_wait" /\ pend["app"].name = name /\ pc'["app"] = "idle"

\* C29: resize() sets the size and puts a context on a new surface of that
\* size in place, and leaves the list, the objects, the viewport and the
\* pixel ratio; set_viewport() changes nothing but the viewport and
\* set_pixel_ratio() nothing but the pixel ratio, the context and the
\* surfaces included; add() appends one entry to the list and changes no
\* other entry; and a complete pass has painted every entry of the list.
C29_FrameMutatorEffects ==
    /\ [][/\ Returns("resize") =>
                /\ size' \in ResizeInputs
                /\ context'.target \notin 1..Len(surfaces)
                /\ surfaces'[context'.target] = NewSurface(size')
                /\ \A k \in 1..Len(surfaces) : surfaces'[k] = surfaces[k]
                /\ UNCHANGED << contents, objects, viewport, pixel_ratio >>
          /\ Returns("set_viewport") =>
                /\ viewport' \in ViewportInputs
                /\ UNCHANGED << contents, objects, size, pixel_ratio, context, surfaces >>
          /\ Returns("set_pixel_ratio") =>
                /\ pixel_ratio' \in RatioInputs
                /\ UNCHANGED << contents, objects, viewport, size, context, surfaces >>
          /\ Returns("add") =>
                /\ Len(contents') = Len(contents) + 1
                /\ SubSeq(contents', 1, Len(contents)) = contents
                /\ \A k \in 1..Len(contents) : contents'[Len(contents')] # contents[k]
                /\ \A c \in 1..Len(objects) : objects'[c] = objects[c]
                /\ UNCHANGED << viewport, size, pixel_ratio, context, surfaces >>]_vars
    /\ [](PassComplete("render") => Len(PaintedOrder) = Len(contents))

\* A pass has painted the two objects of a frame that was resized once: two
\* add() calls and one resize(), in some order.
C29_Witness ==
    /\ PassComplete("render")
    /\ PaintedOrder = <<1, 2>>
    /\ Len(surfaces) = 2
    /\ context.target = 2
    /\ GetSize \in ResizeInputs
    /\ nAppCalls = 3

\* ---------------------------------------------------------------- C30
\* C30: the context's current path is empty when draw_path begins the
\* construction of an object's path, when draw_shadows begins the replay for
\* an object that has shadows, and when draw() begins the background
\* rectangle of a pass.
C30_ConstructionStartsEmpty ==
    /\ pc["render"] = "dp_paint" => context.path = <<>>
    /\ (pc["render"] = "ds_rd" /\ objects[contents[idx]].content.shadows # <<>>)
          => context.path = <<>>
    /\ pc["render"] = "draw_bg" => context.path = <<>>

\* ---------------------------------------------------------------- C31
\* C31: every index box_blur_h and box_blur_t use on source and target lies
\* in 0 .. width * height - 1, so both passes of every box_blur call run to
\* their end, whatever the width, the height and the radius.
C31_IndicesInsideBuffer ==
    lastPass.done =>
        /\ Len(lastPass.source) = buffer.width * buffer.height
        /\ lastPass.hOk
        /\ lastPass.tOk

\* ---------------------------------------------------------------- C32
\* The number of calls op among the first n calls of cs.
CountOp(cs, op, n) == Cardinality({j \in 1..n : cs[j].op = op})

\* Every restore() of cs comes after a save() of cs that no earlier
\* restore() has taken.
Matched(cs) ==
    \A i \in 1..Len(cs) :
        cs[i].op = "restore" => CountOp(cs, "save", i - 1) > CountOp(cs, "restore", i - 1)

\* The saved states of the frame's context.
Saved(cx) == Len(cx.stack)

\* C32: every restore() of a pass is preceded by an unmatched save(), and the
\* number of saved states of the frame's context grows by exactly one per
\* draw() pass - by the save() after the background, the painting of the
\* objects and shadows leaving it as it is - and changes otherwise only when
\* resize() makes a new context with none.
C32_SaveRestoreBalanced ==
    /\ [](Matched(calls))
    /\ [][/\ pc["render"] = "draw_bg" /\ pc'["render"] = "draw_obj" =>
                Saved(context') = Saved(context) + 1
          /\ DrawStep /\ pc["render"] # "draw_bg" => Saved(context') = Saved(context)
          /\ ~DrawStep /\ Saved(context') # Saved(context) =>
                context' = NewContext(context'.target) /\ context'.target # context.target
         ]_vars

\* ---------------------------------------------------------------- C33
\* The orientation base with the transforms ts composed onto it one after
\* the other, the first of ts first.
RECURSIVE ComposedInOrder(_, _)
ComposedInOrder(base, ts) ==
    IF ts = <<>> THEN base
    ELSE ComposedInOrder(ComposeTransform(base, Head(ts)), Tail(ts))

\* The render thread is painting an object: it holds the cell's read guard.
Painting == pc["render"] \in {"dp_rd", "ds_rd", "dp_paint", "dt_rd", "lt_rd", "dt_show"}

====
